---- MODULE Spec2Model ----
(***************************************************************************)
(* Socket Browser: the navigation state of the Tauri front end             *)
(* (ui/js/main.js: state, navigateTo, generateUI, handleBack,              *)
(* handleForward, handleHome), the screens of ui/js/ui.js, and the         *)
(* HybridRenderer of src/renderer/hybrid-renderer.js.                      *)
(*                                                                         *)
(* Every `await` of the source is a suspension point: a running async      *)
(* function is a task whose pc names the call it waits for, and the        *)
(* answer of the collaborator is chosen by the environment.                *)
(***************************************************************************)
EXTENDS Integers, Sequences, FiniteSets, Bags, TLC

(***************************************************************************)
(* Bounds of the model.                                                    *)
(***************************************************************************)
\* steps (handler runs and continuations after an await) in one run
MaxSteps == 8
\* token refreshes one generateUI call may go through
MaxRetry == 2
\* HybridRenderer.render calls in flight at once
MaxRenders == 2
\* entries of the params object of one callAPI call
MaxParams == 2
\* endpoints of the descriptor given to callAPI
MaxEndpoints == 2
\* steps of a run of the navigation scenario
MaxE2ESteps == 6
\* steps (handler runs and continuations) of a run of renderer.js
MaxPageSteps == 8
\* steps (calls and continuations) of a run of the wallet
MaxWalletSteps == 6
\* methods of the wallet suspended at an await at one time
MaxWalletCalls == 1

Null == "null"
Urls == {"X", "Y"}
Names == {"Grocery API"}

NullDescriptor == [name |-> Null, baseUrl |-> Null]
Descriptors == [name : Names, baseUrl : Urls]
NoHtml == <<>>
\* the markup the render service produces for a descriptor
Html(d) == <<"html", d.name, d.baseUrl>>

VARIABLES
    state,      \* main.js `state`: currentUrl, descriptor, history, historyIndex, tokens
    dom,        \* the content screens of ui.js: display flags, error text, generated markup
    tasks,      \* bag of the async functions suspended at an await
    steps,      \* steps taken so far
    hybrid,     \* the HybridRenderer instance
    renders,    \* HybridRenderer.render calls suspended at an await
    last,       \* history variable: the handler step just taken and the state before it
    api,        \* the main-process API layer: the discoverSocketAgent or callAPI call in progress
    page,       \* renderer.js: currentUrl, currentDescriptor, the screens, the controls of
                \* the generated UI, and the handlers suspended at an await
    wallet      \* the SolanaWallet instance: keypair, isUnlocked, the two items of its
                \* storage, and its async methods suspended at an await

vars == <<state, dom, tasks, steps, hybrid, renders, last, api, page, wallet>>

(***************************************************************************)
(* ui.js                                                                   *)
(***************************************************************************)
MsgSignInAccount == "Please sign in to generate UIs. Click the account button to login."
MsgSignIn == "Please sign in to generate UIs."
MsgExpired == "Session expired. Please sign in again."
MsgGenerate == "Failed to generate UI"
MsgLoad == "Failed to load"

showLoading(d) ==
    [d EXCEPT !.loading = TRUE, !.welcome = FALSE, !.generated = FALSE, !.error = FALSE]

showError(d, message) ==
    [d EXCEPT !.errorMessage = message, !.error = TRUE,
              !.loading = FALSE, !.welcome = FALSE, !.generated = FALSE]

hideError(d) == [d EXCEPT !.error = FALSE]

showWelcome(d) ==
    [d EXCEPT !.welcome = TRUE, !.generated = FALSE, !.loading = FALSE, !.error = FALSE]

showGeneratedUI(d) ==
    [d EXCEPT !.generated = TRUE, !.welcome = FALSE, !.loading = FALSE, !.error = FALSE]

\* the markup is set but the generated-UI screen is not shown
setGeneratedUIKeepsScreen(d, html) == [d EXCEPT !.html = html]

\* container.innerHTML = html: the elements of the container are new ones, with no
\* listener attached, and setGeneratedUI attaches none
setGeneratedUI(d, html) == showGeneratedUI([d EXCEPT !.html = html, !.listeners = 0])

\* the screen the user sees, by the display flags
Screen(d) ==
    IF d.error THEN "ERROR"
    ELSE IF d.loading THEN "LOADING"
    ELSE IF d.generated THEN "ACTIVE"
    ELSE IF d.welcome THEN "BLANK"
    ELSE "NONE"

(***************************************************************************)
(* main.js state and tasks                                                 *)
(***************************************************************************)
Entry(url, d) == [url |-> url, descriptor |-> d]

InitState == [currentUrl |-> Null, descriptor |-> NullDescriptor,
              history |-> <<>>, historyIndex |-> -1,
              accessToken |-> Null, refreshToken |-> Null]

\* listeners = the handlers attached to each data-api-call control and each form of
\* the markup in #generated-ui
InitDom == [welcome |-> TRUE, loading |-> FALSE, generated |-> FALSE, error |-> FALSE,
            errorMessage |-> "", html |-> NoHtml, listeners |-> 0]

\* updateModeIndicator: the chrome's mode class and the badge text
updateModeIndicator(h, mode) ==
    IF mode = "socket-agent"
    THEN [h EXCEPT !.chrome = (@ \cup {"socket-agent-mode"}) \ {"html-mode"},
                   !.badge = "Socket Agent"]
    ELSE [h EXCEPT !.chrome = (@ \ {"socket-agent-mode"}) \cup {"html-mode"},
                   !.badge = "HTML"]

\* new HybridRenderer() over a page whose #generated-ui and #html-view have the
\* given `hidden` class and whose #browser-chrome has the given classes;
\* browserView is the main process's htmlBrowserView: none, hidden or shown
constructor(socketAgentHidden, htmlViewHidden, classes) ==
    updateModeIndicator(
        [mode |-> "html", currentUrl |-> Null,
         socketAgentHidden |-> socketAgentHidden, htmlViewHidden |-> htmlViewHidden,
         chrome |-> classes, badge |-> "", html |-> NoHtml, bound |-> FALSE,
         browserView |-> "none"],
        "html")

InitHybrid == constructor(TRUE, FALSE, {})

\* no call of the API layer is in progress
ApiIdle == [fn |-> "none", pc |-> "idle"]

(***************************************************************************)
(* renderer.js: the screens and the controls of the generated UI           *)
(***************************************************************************)
\* the data-api-call buttons of a generated page
ControlIds == {"search_products", "add_to_cart"}

\* a button with its label, the click listeners attached to it, and the
\* .api-results and .api-error blocks of its parent element (empty when the parent
\* has no such block)
Control(present) == [present |-> present, text |-> "Run", disabled |-> FALSE,
                     results |-> <<>>, error |-> <<>>, listeners |-> 0]

hideAllScreens(p) ==
    [p EXCEPT !.hidden = [blank |-> TRUE, loading |-> TRUE, generated |-> TRUE,
                          error |-> TRUE]]

showBlank(p) == [hideAllScreens(p) EXCEPT !.hidden.blank = FALSE]

\* the page once renderer.js has run: showBlank(). formListeners = the submit
\* listeners attached to each form of the markup, submits = the submit events
\* handled so far
InitPage ==
    showBlank([currentUrl |-> "", currentDescriptor |-> NullDescriptor,
               hidden |-> [blank |-> TRUE, loading |-> TRUE, generated |-> TRUE,
                           error |-> TRUE],
               errorMessage |-> "", html |-> NoHtml, markup |-> 0,
               controls |-> [c \in ControlIds |-> Control(FALSE)],
               formListeners |-> 0, submits |-> 0,
               navigations |-> EmptyBag, calls |-> EmptyBag])

\* new SolanaWallet(storage) over an empty storage: encrypted and address are the
\* items solana_wallet_encrypted and solana_wallet_address, None for null
InitWallet == [keypair |-> <<>>, isUnlocked |-> FALSE, encrypted |-> <<>>,
               address |-> <<>>, pending |-> EmptyBag, sinceLock |-> <<>>]

\* the history stack as a handler finds it
Stack(st) == [history |-> st.history, historyIndex |-> st.historyIndex]

\* a suspended async function: kind nav = navigateTo, replay = the generateUI that
\* handleBack/handleForward start; pc = the call awaited; depth = nested generateUI
\* frames. History variables: superseded = a later navigateTo has started since,
\* before = the history stack when the function was called
Task(pc, kind, url, d, before) ==
    [pc |-> pc, kind |-> kind, url |-> url, descriptor |-> d,
     depth |-> 0, superseded |-> FALSE, before |-> before]

Pending == BagToSet(tasks)
Add(b, t) == b (+) SetToBag({t})
Remove(b, t) == b (-) SetToBag({t})
Move(b, t, u) == Add(Remove(b, t), u)

\* every pending navigateTo is older than the one starting now
Supersede(b) ==
    LET mark(t) == IF t.kind = "nav" THEN [t EXCEPT !.superseded = TRUE] ELSE t
        S == BagToSet(b)
        T == {mark(t) : t \in S}
        n(u) == (IF u \in S THEN b[u] ELSE 0)
                + (IF u.kind = "nav" /\ [u EXCEPT !.superseded = FALSE] \in S
                   THEN b[[u EXCEPT !.superseded = FALSE]] ELSE 0)
    IN [u \in T |-> n(u)]

Snapshot == [state |-> state, dom |-> dom, tasks |-> tasks]

Tick == steps < MaxSteps /\ steps' = steps + 1

\* the step just taken: op = the handler or continuation that ran, task = the
\* suspended function it continued (NoTask for a handler), pre = the state before
\* it, afterBack = the history stack before the step that preceded it, when that step
\* was handleBack
NoTask == [pc |-> "none", kind |-> "none", url |-> Null, descriptor |-> NullDescriptor,
           depth |-> 0, superseded |-> FALSE, before |-> Stack(InitState)]

NotAfterBack == [is |-> FALSE, stack |-> Stack(InitState)]

Step(op, t) ==
    [op |-> op, task |-> t, pre |-> Snapshot,
     afterBack |-> IF last.op = "back"
                   THEN [is |-> TRUE, stack |-> Stack(last.pre.state)]
                   ELSE NotAfterBack]

\* history entry at the 0-based index idx
EntryAt(h, idx) == h[idx + 1]

(***************************************************************************)
(* navigateTo: the history append (truncating the forward entries first)   *)
(***************************************************************************)
\* mutant: the index is set to history.length
PushHistoryIndexOffByOne(st, entry) ==
    LET kept == IF st.historyIndex < Len(st.history) - 1
                THEN SubSeq(st.history, 1, st.historyIndex + 1)
                ELSE st.history
        h == Append(kept, entry)
    IN [st EXCEPT !.history = h, !.historyIndex = Len(h)]

\* mutant: the forward entries are kept
PushHistoryNoTruncate(st, entry) ==
    LET h == Append(st.history, entry)
    IN [st EXCEPT !.history = h, !.historyIndex = Len(h) - 1]

PushHistory(st, entry) ==
    LET kept == IF st.historyIndex < Len(st.history) - 1
                THEN SubSeq(st.history, 1, st.historyIndex + 1)
                ELSE st.history
        h == Append(kept, entry)
    IN [st EXCEPT !.history = h, !.historyIndex = Len(h) - 1]

\* what navigateTo commits when discovery succeeded
CommitDiscovery(st, url, d) ==
    PushHistory([st EXCEPT !.descriptor = d, !.currentUrl = url], Entry(url, d))

(***************************************************************************)
(* generateUI up to its first await: showLoading, then the access-token    *)
(* check. called = the render service is called and the function waits.    *)
(***************************************************************************)
\* mutant: the access-token check is missing
AuthorizedAlways(st) == TRUE

Authorized(st) == st.accessToken # Null

GenerateUIEnter(st, d) ==
    IF ~Authorized(st)
    THEN [dom |-> showError(showLoading(d), MsgSignInAccount), called |-> FALSE]
    ELSE [dom |-> showLoading(d), called |-> TRUE]

clearTokens(st) == [st EXCEPT !.accessToken = Null, !.refreshToken = Null]
setTokens(st, a, r) == [st EXCEPT !.accessToken = a, !.refreshToken = r]

(***************************************************************************)
(* handleGo / navigateTo                                                   *)
(***************************************************************************)
HandleGo(url) ==
    /\ Tick
    /\ dom' = showLoading(dom)
    /\ tasks' = Add(Supersede(tasks), Task("discover", "nav", url, NullDescriptor, Stack(state)))
    /\ last' = Step("go", NoTask)
    /\ UNCHANGED <<state, hybrid, renders, api, page, wallet>>

\* result.success is false, or the call threw
DiscoverFail(t) ==
    /\ t.pc = "discover"
    /\ Tick
    /\ dom' = showError(dom, MsgLoad)
    /\ tasks' = Remove(tasks, t)
    /\ last' = Step("discoverFail", t)
    /\ UNCHANGED <<state, hybrid, renders, api, page, wallet>>

DiscoverOk(t) ==
    /\ t.pc = "discover"
    /\ Tick
    /\ \E d \in Descriptors :
        /\ d.baseUrl = t.url
        /\ LET st == CommitDiscovery(state, t.url, d)
               g == GenerateUIEnter(st, dom)
           IN /\ state' = st
              /\ dom' = g.dom
              /\ tasks' = IF g.called
                          THEN Move(tasks, t, [t EXCEPT !.pc = "generate",
                                                        !.descriptor = st.descriptor])
                          ELSE Remove(tasks, t)
              /\ last' = Step("discoverOk", t)
    /\ UNCHANGED <<hybrid, renders, api, page, wallet>>

(***************************************************************************)
(* generateUI after the render service answered                            *)
(***************************************************************************)
GenerateOk(t) ==
    /\ t.pc = "generate"
    /\ Tick
    /\ dom' = setGeneratedUI(dom, Html(t.descriptor))
    /\ tasks' = Remove(tasks, t)
    /\ last' = Step("generateOk", t)
    /\ UNCHANGED <<state, hybrid, renders, api, page, wallet>>

\* a failure whose message does not include 'Authentication failed'
GenerateFail(t) ==
    /\ t.pc = "generate"
    /\ Tick
    /\ dom' = showError(dom, MsgGenerate)
    /\ tasks' = Remove(tasks, t)
    /\ last' = Step("generateFail", t)
    /\ UNCHANGED <<state, hybrid, renders, api, page, wallet>>

\* 'Authentication failed': refresh the token when there is a refresh token
GenerateAuthFail(t) ==
    /\ t.pc = "generate"
    /\ Tick
    /\ IF state.refreshToken # Null
       THEN /\ t.depth < MaxRetry
            /\ tasks' = Move(tasks, t, [t EXCEPT !.pc = "refresh"])
            /\ dom' = dom
       ELSE /\ dom' = showError(dom, MsgSignIn)
            /\ tasks' = Remove(tasks, t)
    /\ last' = Step("generateAuthFail", t)
    /\ UNCHANGED <<state, hybrid, renders, api, page, wallet>>

\* api.auth.refresh succeeded: saveAuthTokens sets the tokens, then awaits the storage
RefreshOk(t) ==
    /\ t.pc = "refresh"
    /\ Tick
    /\ state' = setTokens(state, "at", "rt")
    /\ tasks' = Move(tasks, t, [t EXCEPT !.pc = "save"])
    /\ last' = Step("refreshOk", t)
    /\ UNCHANGED <<dom, hybrid, renders, api, page, wallet>>

\* refreshResult.success is false
RefreshFail(t) ==
    /\ t.pc = "refresh"
    /\ Tick
    /\ dom' = showError(dom, MsgSignIn)
    /\ tasks' = Remove(tasks, t)
    /\ last' = Step("refreshFail", t)
    /\ UNCHANGED <<state, hybrid, renders, api, page, wallet>>

\* api.auth.refresh threw: catch (refreshError) runs clearAuthTokens
RefreshThrow(t) ==
    /\ t.pc = "refresh"
    /\ Tick
    /\ state' = clearTokens(state)
    /\ tasks' = Move(tasks, t, [t EXCEPT !.pc = "clear"])
    /\ last' = Step("refreshThrow", t)
    /\ UNCHANGED <<dom, hybrid, renders, api, page, wallet>>

\* saveAuthTokens done: retry generateUI(descriptor), one frame deeper
SaveOk(t) ==
    /\ t.pc = "save"
    /\ Tick
    /\ LET g == GenerateUIEnter(state, dom)
       IN /\ dom' = g.dom
          /\ tasks' = IF g.called
                      THEN Move(tasks, t, [t EXCEPT !.pc = "generate", !.depth = @ + 1])
                      ELSE Remove(tasks, t)
          /\ last' = Step("saveOk", t)
    /\ UNCHANGED <<state, hybrid, renders, api, page, wallet>>

\* the storage write of saveAuthTokens threw: catch (refreshError) runs clearAuthTokens
SaveThrow(t) ==
    /\ t.pc = "save"
    /\ Tick
    /\ state' = clearTokens(state)
    /\ tasks' = Move(tasks, t, [t EXCEPT !.pc = "clear"])
    /\ last' = Step("saveThrow", t)
    /\ UNCHANGED <<dom, hybrid, renders, api, page, wallet>>

ClearOk(t) ==
    /\ t.pc = "clear"
    /\ Tick
    /\ dom' = showError(dom, MsgExpired)
    /\ tasks' = Remove(tasks, t)
    /\ last' = Step("clearOk", t)
    /\ UNCHANGED <<state, hybrid, renders, api, page, wallet>>

\* the storage write of clearAuthTokens threw inside the catch block: the error leaves
\* this generateUI frame; an enclosing frame catches it as refreshError, the outermost
\* one hands it to navigateTo's catch (a replay has no catch)
ClearThrow(t) ==
    /\ t.pc = "clear"
    /\ Tick
    /\ IF t.depth > 0
       THEN /\ state' = clearTokens(state)
            /\ tasks' = Move(tasks, t, [t EXCEPT !.depth = @ - 1])
            /\ dom' = dom
       ELSE /\ state' = state
            /\ tasks' = Remove(tasks, t)
            /\ dom' = IF t.kind = "nav" THEN showError(dom, MsgLoad) ELSE dom
    /\ last' = Step("clearThrow", t)
    /\ UNCHANGED <<hybrid, renders, api, page, wallet>>

(***************************************************************************)
(* handleBack / handleForward / handleHome                                 *)
(***************************************************************************)
BackMoves(st) == st.historyIndex > 0

ForwardMoves(st) == st.historyIndex < Len(st.history) - 1

\* mutant: moving drops the entries after idx
MoveToTruncating(st, idx) ==
    LET entry == EntryAt(st.history, idx)
    IN [st EXCEPT !.historyIndex = idx, !.currentUrl = entry.url,
                  !.descriptor = entry.descriptor,
                  !.history = SubSeq(st.history, 1, idx + 1)]

\* mutant: only historyIndex moves
MoveToIndexOnly(st, idx) == [st EXCEPT !.historyIndex = idx]

\* the entry at idx becomes the current one
MoveTo(st, idx) ==
    LET entry == EntryAt(st.history, idx)
    IN [st EXCEPT !.historyIndex = idx, !.currentUrl = entry.url,
                  !.descriptor = entry.descriptor]

handleBackState(st) == IF BackMoves(st) THEN MoveTo(st, st.historyIndex - 1) ELSE st

\* mutant: the increment of historyIndex is missing
handleForwardStateStuck(st) == IF ForwardMoves(st) THEN MoveTo(st, st.historyIndex) ELSE st

handleForwardState(st) == IF ForwardMoves(st) THEN MoveTo(st, st.historyIndex + 1) ELSE st

\* mutant: home jumps to the first entry
handleHomeStateFirstEntry(st) == IF Len(st.history) > 0 THEN MoveTo(st, 0) ELSE st

handleHomeState(st) == [st EXCEPT !.currentUrl = Null, !.descriptor = NullDescriptor]

\* generateUI(entry.descriptor), started and not awaited
Replay(op, st) ==
    LET g == GenerateUIEnter(st, dom)
    IN /\ state' = st
       /\ dom' = g.dom
       /\ tasks' = IF g.called
                   THEN Add(tasks, Task("generate", "replay", st.currentUrl,
                                        st.descriptor, Stack(state)))
                   ELSE tasks
       /\ last' = Step(op, NoTask)

\* mutant: generateUI is called outside the historyIndex check
HandleBackAlwaysReplays ==
    /\ Tick
    /\ Replay("back", handleBackState(state))
    /\ UNCHANGED <<hybrid, renders, api, page, wallet>>

HandleBack ==
    /\ Tick
    /\ IF BackMoves(state)
       THEN Replay("back", handleBackState(state))
       ELSE /\ last' = Step("back", NoTask)
            /\ UNCHANGED <<state, dom, tasks>>
    /\ UNCHANGED <<hybrid, renders, api, page, wallet>>

HandleForward ==
    /\ Tick
    /\ IF ForwardMoves(state)
       THEN Replay("forward", handleForwardState(state))
       ELSE /\ last' = Step("forward", NoTask)
            /\ UNCHANGED <<state, dom, tasks>>
    /\ UNCHANGED <<hybrid, renders, api, page, wallet>>

HandleHome ==
    /\ Tick
    /\ state' = handleHomeState(state)
    /\ dom' = showWelcome(dom)
    /\ last' = Step("home", NoTask)
    /\ UNCHANGED <<tasks, hybrid, renders, api, page, wallet>>

(***************************************************************************)
(* saveAuthTokens / clearAuthTokens as the account panel calls them, and   *)
(* the error dismiss button                                                *)
(***************************************************************************)
Login ==
    /\ Tick
    /\ state.accessToken = Null
    /\ state' = setTokens(state, "at", "rt")
    /\ last' = Step("login", NoTask)
    /\ UNCHANGED <<dom, tasks, hybrid, renders, api, page, wallet>>

Logout ==
    /\ Tick
    /\ state.accessToken # Null
    /\ state' = clearTokens(state)
    /\ last' = Step("logout", NoTask)
    /\ UNCHANGED <<dom, tasks, hybrid, renders, api, page, wallet>>

DismissError ==
    /\ Tick
    /\ dom.error
    /\ dom' = hideError(dom)
    /\ last' = Step("dismiss", NoTask)
    /\ UNCHANGED <<state, tasks, hybrid, renders, api, page, wallet>>

(***************************************************************************)
(* The Tauri front end                                                     *)
(***************************************************************************)
Init ==
    /\ state \in {InitState, setTokens(InitState, "at", "rt")}
    /\ dom = InitDom
    /\ tasks = EmptyBag
    /\ steps = 0
    /\ hybrid = InitHybrid
    /\ renders = EmptyBag
    /\ api = ApiIdle
    /\ page = InitPage
    /\ wallet = InitWallet
    /\ last = [op |-> "init", task |-> NoTask,
               pre |-> [state |-> state, dom |-> InitDom, tasks |-> EmptyBag],
               afterBack |-> NotAfterBack]

Next ==
    \/ \E url \in Urls : HandleGo(url)
    \/ \E t \in Pending : DiscoverOk(t)
    \/ \E t \in Pending : DiscoverFail(t)
    \/ \E t \in Pending : GenerateOk(t)
    \/ \E t \in Pending : GenerateFail(t)
    \/ \E t \in Pending : GenerateAuthFail(t)
    \/ \E t \in Pending : RefreshOk(t)
    \/ \E t \in Pending : RefreshFail(t)
    \/ \E t \in Pending : RefreshThrow(t)
    \/ \E t \in Pending : SaveOk(t)
    \/ \E t \in Pending : SaveThrow(t)
    \/ \E t \in Pending : ClearOk(t)
    \/ \E t \in Pending : ClearThrow(t)
    \/ HandleBack
    \/ HandleForward
    \/ HandleHome
    \/ Login
    \/ Logout
    \/ DismissError

Spec == Init /\ [][Next]_vars

(***************************************************************************)
(* HybridRenderer (src/renderer/hybrid-renderer.js)                        *)
(***************************************************************************)
\* the ways discoverSocketAgent fails, and the Error it throws for each
DiscoveryFailures == {"NotFound404", "HttpStatus", "ConnectionRefused", "DnsFailure",
                      "Timeout", "InvalidPayload", "BridgeError"}

DiscoveryError(kind, url) ==
    [kind |-> kind,
     message |-> CASE kind = "ConnectionRefused" -> <<"Cannot connect to", url>>
                   [] kind = "NotFound404" -> <<"No Socket Agent API found at", url>>
                   [] kind = "HttpStatus" -> <<"HTTP", "500">>
                   [] kind = "DnsFailure" -> <<"Cannot resolve hostname:", url>>
                   [] kind = "Timeout" -> <<"Discovery failed:", "timeout of 10000ms exceeded">>
                   [] kind = "InvalidPayload" -> <<"Discovery failed:", "Invalid Socket Agent descriptor: missing required fields">>
                   [] OTHER -> <<"Python bridge failed">>]

NoError == [kind |-> "none", message |-> <<>>]

\* what electronAPI.discoverSocketAgent(url) settles with: a rejection carrying an
\* Error, or a result whose success is true, false or absent (undefined) and whose
\* descriptor is an object or absent (NullDescriptor)
DiscoveryOutcomes(url) ==
    {[settle |-> "reject", success |-> "undefined", descriptor |-> NullDescriptor,
      error |-> DiscoveryError(k, url)] : k \in DiscoveryFailures}
    \cup
    {[settle |-> "resolve", success |-> s, descriptor |-> d, error |-> NoError] :
        s \in {"true", "false", "undefined"},
        d \in {NullDescriptor} \cup {e \in Descriptors : e.baseUrl = url}}

NoOutcome == [settle |-> "none", success |-> "undefined", descriptor |-> NullDescriptor,
              error |-> NoError]

Truthy(v) == v \notin {"false", "undefined", Null}

\* the catch of detectMode rethrows
detectModeRethrows(o) ==
    IF o.settle = "reject"
    THEN [raised |-> TRUE, mode |-> "none", descriptor |-> NullDescriptor]
    ELSE IF Truthy(o.success) /\ o.descriptor # NullDescriptor
    THEN [raised |-> FALSE, mode |-> "socket-agent", descriptor |-> o.descriptor]
    ELSE [raised |-> FALSE, mode |-> "html", descriptor |-> NullDescriptor]

\* detectMode once discovery has settled with o: a rejection lands in the catch,
\* which logs error.message of the Error and falls through to the html default
detectMode(o) ==
    IF o.settle = "resolve" /\ Truthy(o.success) /\ o.descriptor # NullDescriptor
    THEN [raised |-> FALSE, mode |-> "socket-agent", descriptor |-> o.descriptor]
    ELSE [raised |-> FALSE, mode |-> "html", descriptor |-> NullDescriptor]

NoDetection == [raised |-> FALSE, mode |-> "none", descriptor |-> NullDescriptor]

hideBrowserView(v) == IF v = "none" THEN "none" ELSE "hidden"
showBrowserView(v) == IF v = "none" THEN "none" ELSE "shown"

switchToSocketAgent(h) ==
    updateModeIndicator(
        [h EXCEPT !.socketAgentHidden = FALSE, !.htmlViewHidden = TRUE,
                  !.mode = "socket-agent", !.browserView = hideBrowserView(@)],
        "socket-agent")

switchToHTML(h) ==
    updateModeIndicator(
        [h EXCEPT !.socketAgentHidden = TRUE, !.htmlViewHidden = FALSE,
                  !.mode = "html", !.browserView = showBrowserView(@)],
        "html")

\* a render(url) call suspended at an await: pc detect, generate or load
RenderTask(pc, url, d) == [pc |-> pc, url |-> url, descriptor |-> d]
NoRender == RenderTask("none", Null, NullDescriptor)
Rendering == BagToSet(renders)

\* the HybridRenderer step just taken: the render call it continued, what discovery
\* settled with, what detectMode returned, and whether render() rejected
HStep(op, r, o, det, rejected) ==
    [op |-> op, task |-> r, outcome |-> o, detection |-> det, rejected |-> rejected]

TauriIdle == UNCHANGED <<state, dom, tasks, api, page, wallet>>

\* render(url) up to its first await
Render(url) ==
    /\ Tick
    /\ Cardinality(Rendering) < MaxRenders
    /\ hybrid' = [hybrid EXCEPT !.currentUrl = url]
    /\ renders' = Add(renders, RenderTask("detect", url, NullDescriptor))
    /\ last' = HStep("render", NoRender, NoOutcome, NoDetection, FALSE)
    /\ TauriIdle

\* discovery settles: detectMode returns (or raises) and render goes on to
\* renderSocketAgent or renderHTML, up to the await inside
RenderDetected(r, o) ==
    /\ Tick
    /\ r.pc = "detect"
    /\ LET detection == detectMode(o) IN
        /\ IF detection.raised
           THEN /\ hybrid' = hybrid
                /\ renders' = Remove(renders, r)
           ELSE IF detection.mode = "socket-agent"
           THEN /\ hybrid' = switchToSocketAgent(hybrid)
                /\ renders' = Move(renders, r,
                                   RenderTask("generate", r.url, detection.descriptor))
           ELSE /\ hybrid' = switchToHTML(hybrid)
                /\ renders' = Move(renders, r, RenderTask("load", r.url, NullDescriptor))
        /\ last' = HStep("detect", r, o, detection, detection.raised)
    /\ TauriIdle

\* renderSocketAgent: generateWebsite answers success
RenderSocketAgentOk(r) ==
    /\ Tick
    /\ r.pc = "generate"
    /\ hybrid' = [hybrid EXCEPT !.html = Html(r.descriptor), !.bound = TRUE]
    /\ renders' = Remove(renders, r)
    /\ last' = HStep("generated", r, NoOutcome, NoDetection, FALSE)
    /\ TauriIdle

\* renderSocketAgent: generateWebsite answers success=false or rejects
RenderSocketAgentFail(r) ==
    /\ Tick
    /\ r.pc = "generate"
    /\ renders' = Remove(renders, r)
    /\ last' = HStep("generateFailed", r, NoOutcome, NoDetection, TRUE)
    /\ UNCHANGED hybrid
    /\ TauriIdle

\* renderHTML: the main process has loaded the URL in its BrowserView
RenderHTMLOk(r) ==
    /\ Tick
    /\ r.pc = "load"
    /\ hybrid' = [hybrid EXCEPT !.browserView = "shown"]
    /\ renders' = Remove(renders, r)
    /\ last' = HStep("loaded", r, NoOutcome, NoDetection, FALSE)
    /\ TauriIdle

\* renderHTML: loadURL failed (the BrowserView exists and is positioned by then)
RenderHTMLFail(r) ==
    /\ Tick
    /\ r.pc = "load"
    /\ hybrid' = [hybrid EXCEPT !.browserView = "shown"]
    /\ renders' = Remove(renders, r)
    /\ last' = HStep("loadFailed", r, NoOutcome, NoDetection, TRUE)
    /\ TauriIdle

InitH ==
    /\ state = InitState
    /\ dom = InitDom
    /\ tasks = EmptyBag
    /\ steps = 0
    /\ hybrid \in {constructor(a, b, c) :
                     a \in BOOLEAN, b \in BOOLEAN,
                     c \in SUBSET {"socket-agent-mode", "html-mode"}}
    /\ renders = EmptyBag
    /\ api = ApiIdle
    /\ page = InitPage
    /\ wallet = InitWallet
    /\ last = HStep("init", NoRender, NoOutcome, NoDetection, FALSE)

NextH ==
    \/ \E url \in Urls : Render(url)
    \/ \E r \in Rendering : \E o \in DiscoveryOutcomes(r.url) : RenderDetected(r, o)
    \/ \E r \in Rendering : RenderSocketAgentOk(r)
    \/ \E r \in Rendering : RenderSocketAgentFail(r)
    \/ \E r \in Rendering : RenderHTMLOk(r)
    \/ \E r \in Rendering : RenderHTMLFail(r)

SpecHybrid == InitH /\ [][NextH]_vars

(***************************************************************************)
(* Properties of the navigation state                                      *)
(***************************************************************************)
Pre == last.pre.state

\* what a navigation commits: current URL and descriptor, the history stack, the
\* screen and the markup shown
NavView(st, d) == <<st.currentUrl, st.descriptor, st.history, st.historyIndex,
                    Screen(d), d.html>>

\* pending calls of the render service
Generating(b) ==
    LET G == {t \in BagToSet(b) : t.pc = "generate"}
    IN BagCardinality([t \in G |-> b[t]])

\* C1: when a navigateTo that a later navigateTo has superseded continues after an
\* await (its discovery, generation or token refresh resolved), it changes none of
\* current URL, descriptor, history, historyIndex, screen and markup.
C1_StaleNavigationCommitsNothing ==
    (last.task.kind = "nav" /\ last.task.superseded)
        => NavView(state, dom) = NavView(Pre, last.pre.dom)

\* C2: in every reachable state -1 <= historyIndex < length(history).
C2_HistoryIndexInRange ==
    /\ -1 <= state.historyIndex
    /\ state.historyIndex < Len(state.history)

\* an overlapped navigation committed after the one that superseded it
C2_Witness ==
    /\ last.op = "discoverOk"
    /\ last.task.superseded
    /\ Len(state.history) = 2
    /\ state.historyIndex = 1

\* C3: the step at which a navigation commits (its discovery succeeded), made at
\* historyIndex = i, leaves the first i+1 old entries followed by the new entry, with
\* historyIndex = length(history)-1 = i+1; and [A,B,C] at index 2, goBack, navigate(D)
\* gives [A,B,D] at index 2.
C3_Example ==
    LET e(u) == Entry(u, [name |-> "Grocery API", baseUrl |-> u])
        abc == [InitState EXCEPT !.history = <<e("A"), e("B"), e("C")>>,
                                 !.historyIndex = 2, !.currentUrl = "C",
                                 !.descriptor = e("C").descriptor]
        abd == CommitDiscovery(handleBackState(abc), "D", e("D").descriptor)
    IN /\ abd.history = <<e("A"), e("B"), e("D")>>
       /\ abd.historyIndex = 2

C3_FreshNavigationTruncates ==
    /\ last.op = "discoverOk" =>
          /\ state.history = SubSeq(Pre.history, 1, Pre.historyIndex + 1)
                                \o <<Entry(last.task.url, state.descriptor)>>
          /\ state.historyIndex = Len(state.history) - 1
          /\ state.historyIndex = Pre.historyIndex + 1
    /\ C3_Example

\* a navigation committed while forward entries existed
C3_Witness ==
    /\ last.op = "discoverOk"
    /\ Pre.historyIndex < Len(Pre.history) - 1
    /\ Len(state.history) = Pre.historyIndex + 2

\* the steps at which generateUI ends in failure after the render service was called
GenerationFailed ==
    \/ last.op \in {"generateFail", "refreshFail", "clearOk"}
    \/ last.op = "generateAuthFail" /\ Pre.refreshToken = Null

\* C4: when the markup generation of a navigateTo fails, the screen is ERROR and
\* history and historyIndex are those found when navigateTo was called.
C4_GenerationFailureLeavesHistory ==
    (last.task.kind = "nav" /\ GenerationFailed)
        => /\ Screen(dom) = "ERROR"
           /\ Stack(state) = last.task.before

RestoredAfterBackForward ==
    LET was == last.afterBack.stack
    IN /\ state.historyIndex = was.historyIndex
       /\ was.historyIndex >= 0 =>
             EntryAt(state.history, state.historyIndex)
                 = EntryAt(was.history, was.historyIndex)

\* C5 as claimed: from any reachable state, goBack() then goForward() restores
\* historyIndex and the entry at it.
C5_BackThenForwardRestores ==
    (last.op = "forward" /\ last.afterBack.is) => RestoredAfterBackForward

\* C5 as amended: from any reachable state other than historyIndex = 0 with forward
\* entries, goBack() then goForward() restores historyIndex and the entry at it.
C5_BackThenForwardRestoresUnlessAtFirst ==
    (/\ last.op = "forward"
     /\ last.afterBack.is
     /\ ~(last.afterBack.stack.historyIndex = 0 /\ Len(last.afterBack.stack.history) > 1))
        => RestoredAfterBackForward

\* goForward() ran right after a goBack() that moved
C5_Witness ==
    /\ last.op = "forward"
    /\ last.afterBack.is
    /\ last.afterBack.stack.historyIndex > 0
    /\ state.historyIndex = last.afterBack.stack.historyIndex

\* C6: goBack() at historyIndex <= 0 and goForward() at the last index change nothing
\* of state and screen and call no collaborator.
C6_BackForwardNoOps ==
    (\/ last.op = "back" /\ Pre.historyIndex <= 0
     \/ last.op = "forward" /\ Pre.historyIndex = Len(Pre.history) - 1)
        => /\ state = Pre
           /\ dom = last.pre.dom
           /\ tasks = last.pre.tasks

\* goBack() at the first entry of a non-empty history
C6_Witness ==
    /\ last.op = "back"
    /\ Pre.historyIndex = 0
    /\ Len(Pre.history) > 0

\* C7: goBack(), goForward() and goHome() leave the history sequence as it was.
C7_HistoryMovesKeepEntries ==
    last.op \in {"back", "forward", "home"} => state.history = Pre.history

\* goBack() moved the index in a history of two entries
C7_Witness ==
    /\ last.op = "back"
    /\ state.historyIndex = Pre.historyIndex - 1
    /\ Len(Pre.history) = 2

EntersGenerateUI ==
    \/ last.op \in {"discoverOk", "saveOk"}
    \/ last.op = "back" /\ Pre.historyIndex > 0
    \/ last.op = "forward" /\ Pre.historyIndex < Len(Pre.history) - 1

\* C9: when generateUI finds no access token, the render service is not called and
\* the screen is ERROR with the sign-in message.
C9_AuthorizationGate ==
    (EntersGenerateUI /\ state.accessToken = Null)
        => /\ Generating(tasks) = Generating(last.pre.tasks)
           /\ Screen(dom) = "ERROR"
           /\ dom.errorMessage = MsgSignInAccount

\* a replay by goBack() without an access token
C9_Witness ==
    /\ last.op = "back"
    /\ Pre.historyIndex > 0
    /\ state.accessToken = Null
    /\ Screen(dom) = "ERROR"


(***************************************************************************)
(* Properties of the HybridRenderer                                        *)
(***************************************************************************)
\* discovery failed: the promise rejected (404, other HTTP status, connection
\* refused, DNS failure, timeout, invalid payload, bridge error), or the result
\* has success=false or no descriptor
DiscoveryFailed(o) ==
    \/ o.settle = "reject"
    \/ o.settle = "resolve" /\ (o.success = "false" \/ o.descriptor = NullDescriptor)

\* C10: whatever the URL and however discovery fails, detectMode returns html
\* mode with a null descriptor and raises nothing, so render does not reject there
\* and goes on to renderHTML
C10_DetectModeNeverFailsOutward ==
    (last.op = "detect" /\ DiscoveryFailed(last.outcome))
        => /\ last.detection = [raised |-> FALSE, mode |-> "html",
                                descriptor |-> NullDescriptor]
           /\ ~last.rejected
           /\ RenderTask("load", last.task.url, NullDescriptor) \in Rendering

C10_Witness ==
    /\ last.op = "detect"
    /\ last.outcome.settle = "reject"
    /\ last.outcome.error.kind = "NotFound404"
    /\ last.detection.mode = "html"
    /\ \E r \in Rendering : r.pc = "detect"

(***************************************************************************)
(* The API layer of the main process (src/api/discovery.js, api/client.js) *)
(*                                                                         *)
(* A string is a sequence of tokens; "/" and a placeholder such as "{id}"  *)
(* are tokens of their own, so that endsWith, includes and replace act on  *)
(* them as the source does. An optional value is None or Some(v).          *)
(***************************************************************************)
None == <<>>
Some(v) == <<v>>
Get(o) == o[1]

endsWith(s, c) == Len(s) > 0 /\ s[Len(s)] = c

\* baseUrl.endsWith('/') ? baseUrl.slice(0, -1) : baseUrl, and replace(/\/$/, '')
StripTrailingSlash(s) == IF endsWith(s, "/") THEN SubSeq(s, 1, Len(s) - 1) ELSE s

Origin == <<"http://localhost:8001">>
BaseUrls == {Origin, Origin \o <<"/">>, Origin \o <<"/", "/">>}
\* the baseUrl argument of callAPI
CallUrls == {Origin, Origin \o <<"/">>}

\* an endpoint of a descriptor: operationId, method and path are optional
Endpoint(operationId, method, path) ==
    [operationId |-> operationId, method |-> method, path |-> path]

SearchProducts == Endpoint(Some(<<"search_products">>), Some("GET"), Some(<<"/products">>))

\* the body of a 2xx answer of the discovery endpoint: null (None) or an object
\* whose name, endpoints and baseUrl may be absent or empty
Payloads ==
    [name : {None, Some(""), Some("Grocery API")},
     endpoints : {None, Some(<<>>), Some(<<SearchProducts>>)},
     baseUrl : {None, Some(<<>>), Some(Origin), Some(Origin \o <<"/">>)}]

StatusText(status) ==
    CASE status = 404 -> "Not Found"
      [] status = 403 -> "Forbidden"
      [] status = 500 -> "Internal Server Error"
      [] status = 503 -> "Service Unavailable"
      [] OTHER -> ""

\* the message axios gives an error without a response
AxiosMessage(code) ==
    CASE code = "ECONNREFUSED" -> <<"connect ECONNREFUSED">>
      [] code = "ENOTFOUND" -> <<"getaddrinfo ENOTFOUND">>
      [] code = "ECONNABORTED" -> <<"timeout of 10000ms exceeded">>
      [] OTHER -> <<"socket hang up">>

\* how axios.get(discoveryUrl) settles: a 2xx response with its data, or an error
\* that carries a response (non-2xx status) or a code
AxiosResponse(status, data) ==
    [settle |-> "response", hasResponse |-> TRUE, status |-> status,
     statusText |-> StatusText(status), data |-> data, code |-> "none",
     message |-> <<>>]
AxiosStatusError(status) ==
    [settle |-> "error", hasResponse |-> TRUE, status |-> status,
     statusText |-> StatusText(status), data |-> None,
     code |-> IF status >= 500 THEN "ERR_BAD_RESPONSE" ELSE "ERR_BAD_REQUEST",
     message |-> <<"Request failed with status code", ToString(status)>>]
AxiosNetworkError(code) ==
    [settle |-> "error", hasResponse |-> FALSE, status |-> 0, statusText |-> "",
     data |-> None, code |-> code, message |-> AxiosMessage(code)]

ProbeOutcomes ==
    {AxiosResponse(200, d) : d \in {None} \cup {Some(p) : p \in Payloads}}
    \cup {AxiosStatusError(st) : st \in {404, 403, 500, 503}}
    \cup {AxiosNetworkError(c) :
            c \in {"ECONNREFUSED", "ENOTFOUND", "ECONNABORTED", "ECONNRESET"}}

\* the URL the probe is sent to
DiscoveryUrl(baseUrl) == StripTrailingSlash(baseUrl) \o <<"/.well-known/socket-agent">>

MsgInvalidDescriptor == <<"Invalid Socket Agent descriptor: missing required fields">>
MsgNullPayload == <<"Cannot read properties of null (reading 'name')">>

\* every error that carries a response is reported as a missing API
discoverCatchEveryStatusNotFound(baseUrl, e) ==
    IF e.code = "ECONNREFUSED"
    THEN <<"Cannot connect to">> \o baseUrl \o <<". Is the server running?">>
    ELSE IF e.hasResponse
    THEN <<"No Socket Agent API found at">> \o baseUrl
             \o <<". Make sure it's a Socket Agent compliant API.">>
    ELSE IF e.code = "ENOTFOUND"
    THEN <<"Cannot resolve hostname:">> \o baseUrl
    ELSE <<"Discovery failed:">> \o e.message

\* the catch of discoverSocketAgent: the Error thrown outward for what was caught
\* (hasResponse, status, statusText, code and message of the caught error)
discoverCatch(baseUrl, e) ==
    IF e.code = "ECONNREFUSED"
    THEN <<"Cannot connect to">> \o baseUrl \o <<". Is the server running?">>
    ELSE IF e.hasResponse
    THEN IF e.status = 404
         THEN <<"No Socket Agent API found at">> \o baseUrl
                  \o <<". Make sure it's a Socket Agent compliant API.">>
         ELSE <<"HTTP", ToString(e.status), ":", e.statusText>>
    ELSE IF e.code = "ENOTFOUND"
    THEN <<"Cannot resolve hostname:">> \o baseUrl
    ELSE <<"Discovery failed:">> \o e.message

\* an Error thrown inside the try: it has no response and no code
Thrown(message) == [settle |-> "error", hasResponse |-> FALSE, status |-> 0,
                    statusText |-> "", data |-> None, code |-> "none",
                    message |-> message]

\* !value of an optional field: absent, or the empty string
NoName(o) == o = None \/ o = Some("")
NoText(o) == o = None \/ o = Some(<<>>)

\* the required-field check is missing
discoverSocketAgentNoValidation(baseUrl, o) ==
    IF o.settle = "response" /\ o.data # None
    THEN [ok |-> TRUE, descriptor |-> o.data, error |-> <<>>]
    ELSE [ok |-> FALSE, descriptor |-> None, error |-> <<"Discovery failed">>]

\* discoverSocketAgent(baseUrl) once the probe has settled with o: the descriptor
\* returned, or the Error thrown
discoverSocketAgent(baseUrl, o) ==
    LET url == StripTrailingSlash(baseUrl)
        failure(e) == [ok |-> FALSE, descriptor |-> None,
                       error |-> discoverCatch(baseUrl, e)]
    IN  IF o.settle = "error"
        THEN failure(o)
        ELSE IF o.data = None
        THEN failure(Thrown(MsgNullPayload))
        ELSE LET descriptor == Get(o.data) IN
             IF NoName(descriptor.name) \/ descriptor.endpoints = None
             THEN failure(Thrown(MsgInvalidDescriptor))
             ELSE [ok |-> TRUE,
                   descriptor |-> Some(IF NoText(descriptor.baseUrl)
                                       THEN [descriptor EXCEPT !.baseUrl = Some(url)]
                                       ELSE descriptor),
                   error |-> <<>>]

ApiFrame == UNCHANGED <<state, dom, tasks, steps, hybrid, renders, last, page, wallet>>

\* discoverSocketAgent(baseUrl) up to its await
DiscoverCall(baseUrl) ==
    /\ api.pc = "idle"
    /\ api' = [fn |-> "discoverSocketAgent", pc |-> "awaiting", baseUrl |-> baseUrl,
               request |-> [method |-> "GET", url |-> DiscoveryUrl(baseUrl)]]
    /\ ApiFrame

\* the probe settles and discoverSocketAgent returns or throws
DiscoverSettle(o) ==
    /\ api.fn = "discoverSocketAgent"
    /\ api.pc = "awaiting"
    /\ api' = [api EXCEPT !.pc = "done"] @@
              [outcome |-> o, result |-> discoverSocketAgent(api.baseUrl, o)]
    /\ ApiFrame

(***************************************************************************)
(* callAPI (api/client.js)                                                 *)
(***************************************************************************)
Range(f) == {f[i] : i \in DOMAIN f}

\* the endpoints descriptors are built from; the operationId of ItemsByPath is
\* the path of SearchProducts
ItemsByPath == Endpoint(Some(<<"/products">>), Some("POST"), Some(<<"/items">>))
UserNoMethod == Endpoint(None, None, Some(<<"/users/", "{id}">>))
UpdateUser == Endpoint(Some(<<"update_user">>), Some("PUT"), Some(<<"/users/", "{id}">>))

EndpointSet == {SearchProducts, ItemsByPath, UserNoMethod, UpdateUser}

\* sequences without repetition of at most n elements of S
RECURSIVE Lists(_, _)
Lists(S, n) ==
    IF n = 0 THEN {<<>>}
    ELSE LET shorter == Lists(S, n - 1)
         IN shorter \cup {Append(l, x) : l \in shorter, x \in S}

Distinct(l) == \A i, j \in DOMAIN l : i # j => l[i] # l[j]

\* the descriptor argument of callAPI: none (null), or one whose endpoints are
\* absent or a list
ApiDescriptors ==
    {None, Some([name |-> Some("Grocery API"), endpoints |-> None, baseUrl |-> Some(Origin)])}
    \cup {Some([name |-> Some("Grocery API"), endpoints |-> Some(l), baseUrl |-> Some(Origin)]) :
            l \in {e \in Lists(EndpointSet, MaxEndpoints) : Distinct(e)}}

\* the endpointId argument of callAPI: an operationId, a path (one of them with
\* its placeholder twice) or a METHOD:path composite
EndpointRefs == {<<"search_products">>, <<"/products">>, <<"GET", ":", "/products">>,
                 <<"/users/", "{id}">>, <<"update_user">>,
                 <<"/users/", "{id}", "/friends/", "{id}">>}

ParamKeys == {"id", "filter", "query"}
ParamValues == {<<"milk">>, <<"{filter}">>}

\* the params object: its entries in insertion order, keys distinct
ParamBags ==
    {l \in Lists(ParamKeys \X ParamValues, MaxParams) :
        \A i, j \in DOMAIN l : i # j => l[i][1] # l[j][1]}

Placeholder(key) ==
    CASE key = "id" -> "{id}"
      [] key = "filter" -> "{filter}"
      [] key = "query" -> "{query}"

\* `${ep.method}:${ep.path}`
Composite(ep) ==
    (IF ep.method = None THEN <<"undefined">> ELSE <<Get(ep.method)>>) \o <<":">>
        \o (IF ep.path = None THEN <<"undefined">> ELSE Get(ep.path))

Matches(ep, endpointId) ==
    \/ ep.operationId = Some(endpointId)
    \/ ep.path = Some(endpointId)
    \/ Composite(ep) = endpointId

\* descriptor.endpoints.find(...): the first endpoint, in the order of the
\* descriptor, that matches in any of the three ways; None for undefined
getEndpoint(endpoints, endpointId) ==
    LET S == {i \in DOMAIN endpoints : Matches(endpoints[i], endpointId)}
    IN  IF S = {} THEN None
        ELSE Some(endpoints[CHOOSE i \in S : \A j \in S : i <= j])

\* a missing endpoint method is taken to be POST
ResolveDefaultPost(descriptor, endpointId) ==
    LET endpoint == IF descriptor = None THEN None
                    ELSE getEndpoint(Get(Get(descriptor).endpoints), endpointId)
    IN  IF endpoint = None
        THEN [endpoint |-> None, method |-> "GET", path |-> endpointId]
        ELSE [endpoint |-> endpoint,
              method |-> IF Get(endpoint).method \in {None, Some("")}
                         THEN "POST" ELSE Get(Get(endpoint).method),
              path |-> IF NoText(Get(endpoint).path)
                       THEN endpointId ELSE Get(Get(endpoint).path)]

\* lines 101-112 of callAPI: the endpoint found, the effective method and the
\* path template
Resolve(descriptor, endpointId) ==
    LET endpoint == IF descriptor = None THEN None
                    ELSE getEndpoint(Get(Get(descriptor).endpoints), endpointId)
    IN  IF endpoint = None
        THEN [endpoint |-> None, method |-> "GET", path |-> endpointId]
        ELSE [endpoint |-> endpoint,
              method |-> IF Get(endpoint).method \in {None, Some("")}
                         THEN "GET" ELSE Get(Get(endpoint).method),
              path |-> IF NoText(Get(endpoint).path)
                       THEN endpointId ELSE Get(Get(endpoint).path)]

includes(s, token) == token \in Range(s)

\* s.replace(token, value): the first occurrence
replace(s, token, value) ==
    IF ~includes(s, token) THEN s
    ELSE LET i == CHOOSE k \in DOMAIN s : s[k] = token /\ \A j \in 1..(k - 1) : s[j] # token
         IN SubSeq(s, 1, i - 1) \o value \o SubSeq(s, i + 1, Len(s))

\* the test without its `&& key === 'id'`
IsPathParamIdForAnyKey(finalPath, key) ==
    \/ includes(finalPath, Placeholder(key))
    \/ includes(finalPath, "{id}")

\* line 122 of callAPI: finalPath.includes(`{${key}}`) ||
\* finalPath.includes(`{id}`) && key === 'id' (&& binds tighter than ||)
IsPathParam(finalPath, key) ==
    \/ includes(finalPath, Placeholder(key))
    \/ (includes(finalPath, "{id}") /\ key = "id")

\* lines 114-130 of callAPI: Object.entries(params).forEach, in insertion order,
\* each key tested against finalPath as substituted so far
RECURSIVE ClassifyFrom(_, _, _, _)
ClassifyFrom(params, method, i, acc) ==
    IF i > Len(params) THEN acc
    ELSE LET key == params[i][1]
             value == params[i][2]
         IN  IF IsPathParam(acc.finalPath, key)
             THEN ClassifyFrom(params, method, i + 1,
                      [acc EXCEPT !.pathParams = Append(@, params[i]),
                                  !.finalPath = replace(@, Placeholder(key), value)])
             ELSE IF method = "GET" \/ method = "DELETE"
             THEN ClassifyFrom(params, method, i + 1,
                      [acc EXCEPT !.queryParams = Append(@, params[i])])
             ELSE ClassifyFrom(params, method, i + 1,
                      [acc EXCEPT !.bodyParams = Append(@, params[i])])

Classify(params, method, path) ==
    ClassifyFrom(params, method, 1,
                 [finalPath |-> path, pathParams |-> <<>>, queryParams |-> <<>>,
                  bodyParams |-> <<>>])

\* lines 132-155 of callAPI: the axios request config; params and data are empty
\* when the config has none
RequestConfig(baseUrl, method, c) ==
    [method |-> method, url |-> StripTrailingSlash(baseUrl) \o c.finalPath,
     params |-> c.queryParams,
     data |-> IF method # "GET" /\ method # "DELETE" THEN c.bodyParams ELSE <<>>]

\* encodeURIComponent as axios applies it to a query key or value
Encode(token) ==
    CASE token = "{filter}" -> "%7Bfilter%7D"
      [] OTHER -> token

RECURSIVE QueryString(_)
QueryString(params) ==
    IF params = <<>> THEN <<>>
    ELSE <<Encode(params[1][1]), "=">> \o [i \in DOMAIN params[1][2] |-> Encode(params[1][2][i])]
         \o (IF Len(params) > 1 THEN <<"&">> \o QueryString(Tail(params)) ELSE <<>>)

\* the request line axios issues for a config
RequestLine(config) ==
    <<config.method, " ">> \o config.url
        \o (IF config.params = <<>> THEN <<>> ELSE <<"?">> \o QueryString(config.params))

\* what the server puts in the body of an error response: nothing, or an object
\* with a message and/or an error field
ErrorBodies == {None} \cup {Some([message |-> m, error |-> e]) :
                              m \in {None, Some("out of stock")},
                              e \in {None, Some("E_STOCK")}}
Bodies == {None, Some(<<"[]">>), Some(<<"{\"products\":[\"milk\"]}">>)}

CallOutcomes ==
    {AxiosResponse(st, b) : st \in {200, 201}, b \in Bodies}
    \cup {[AxiosStatusError(st) EXCEPT !.data = b] : st \in {304, 404, 500},
                                                    b \in ErrorBodies}
    \cup {AxiosNetworkError(c) :
            c \in {"ECONNREFUSED", "ENOTFOUND", "ECONNABORTED", "ECONNRESET"}}

\* data?.message || data?.error || fallback
ErrorDetail(data, fallback) ==
    IF data = None THEN fallback
    ELSE IF ~NoName(Get(data).message) THEN Get(Get(data).message)
    ELSE IF ~NoName(Get(data).error) THEN Get(Get(data).error)
    ELSE fallback

\* every failed response is reported as a client error
callCatchAllClient(e) ==
    IF e.hasResponse
    THEN <<"Client error (", ToString(e.status), "):", ErrorDetail(e.data, "Bad request")>>
    ELSE <<"Request failed:">> \o e.message

\* the catch of callAPI: the message of the Error thrown outward
callCatch(e) ==
    IF e.hasResponse
    THEN IF e.status >= 400 /\ e.status < 500
         THEN <<"Client error (", ToString(e.status), "):", ErrorDetail(e.data, "Bad request")>>
         ELSE IF e.status >= 500
         THEN <<"Server error (", ToString(e.status), "):",
                ErrorDetail(e.data, "Internal server error")>>
         ELSE <<"HTTP", ToString(e.status), ":", ErrorDetail(e.data, "Request failed")>>
    ELSE IF e.code = "ECONNREFUSED" THEN <<"Connection refused. Is the API server running?">>
    ELSE IF e.code = "ENOTFOUND" THEN <<"Cannot resolve hostname">>
    ELSE IF e.code = "ECONNABORTED" THEN <<"Request timeout">>
    ELSE <<"Request failed:">> \o e.message

MsgNoEndpoints == <<"Cannot read properties of undefined (reading 'find')">>

\* getEndpoint throws on a descriptor without endpoints
ThrowsBeforeRequest(descriptor) ==
    descriptor # None /\ Get(descriptor).endpoints = None

\* callAPI(baseUrl, endpointId, params, descriptor) up to its await: the request
\* is issued, or the call has failed already
CallAPI(via, baseUrl, endpointId, params, descriptor) ==
    /\ api.pc = "idle"
    /\ IF ThrowsBeforeRequest(descriptor)
       THEN api' = [fn |-> "callAPI", via |-> via, pc |-> "done", baseUrl |-> baseUrl,
                    endpointId |-> endpointId, params |-> params,
                    descriptor |-> descriptor, issued |-> FALSE,
                    outcome |-> Thrown(MsgNoEndpoints),
                    result |-> [ok |-> FALSE, data |-> None,
                                error |-> callCatch(Thrown(MsgNoEndpoints))]]
       ELSE LET r == Resolve(descriptor, endpointId)
                c == Classify(params, r.method, r.path)
            IN api' = [fn |-> "callAPI", via |-> via, pc |-> "awaiting",
                       baseUrl |-> baseUrl, endpointId |-> endpointId,
                       params |-> params, descriptor |-> descriptor, issued |-> TRUE,
                       resolved |-> r, classified |-> c,
                       config |-> RequestConfig(baseUrl, r.method, c)]
    /\ ApiFrame

\* callAPI called with every argument
CallAPIDirect(baseUrl, endpointId, params, descriptor) ==
    CallAPI("direct", baseUrl, endpointId, params, descriptor)

\* ipcMain.handle('call-api'): callAPI(url, endpoint, params), the descriptor
\* parameter left at its default null
CallAPIIpc(url, endpoint, params) == CallAPI("ipc", url, endpoint, params, None)

\* the request settles and callAPI returns response.data or throws; nothing of
\* the arguments is read after the await
CallSettle(o) ==
    /\ api.fn = "callAPI"
    /\ api.pc = "awaiting"
    /\ api' = [fn |-> "callAPI", via |-> api.via, pc |-> "done", issued |-> TRUE,
               outcome |-> o,
               result |-> IF o.settle = "response"
                          THEN [ok |-> TRUE, data |-> o.data, error |-> <<>>]
                          ELSE [ok |-> FALSE, data |-> None, error |-> callCatch(o)]]
    /\ ApiFrame

InitApi ==
    /\ state = InitState
    /\ dom = InitDom
    /\ tasks = EmptyBag
    /\ steps = 0
    /\ hybrid = InitHybrid
    /\ renders = EmptyBag
    /\ last = HStep("init", NoRender, NoOutcome, NoDetection, FALSE)
    /\ api = ApiIdle
    /\ page = InitPage
    /\ wallet = InitWallet

NextApi ==
    \/ \E baseUrl \in BaseUrls : DiscoverCall(baseUrl)
    \/ api.pc = "awaiting" /\ \E o \in ProbeOutcomes : DiscoverSettle(o)
    \/ api.pc = "idle" /\
         \E baseUrl \in CallUrls, endpointId \in EndpointRefs, params \in ParamBags,
            descriptor \in ApiDescriptors :
              CallAPIDirect(baseUrl, endpointId, params, descriptor)
    \/ api.pc = "idle" /\
         \E url \in CallUrls, endpoint \in EndpointRefs, params \in ParamBags :
              CallAPIIpc(url, endpoint, params)
    \/ api.pc = "awaiting" /\ \E o \in CallOutcomes : CallSettle(o)

SpecApi == InitApi /\ [][NextApi]_vars

(***************************************************************************)
(* Properties of discoverSocketAgent                                       *)
(***************************************************************************)
Discovered == api.fn = "discoverSocketAgent" /\ api.pc = "done"

\* the probe was answered 2xx with an object
ObjectPayload(o) == o.settle = "response" /\ o.data # None

\* how a probe failed, read off what the probe settled with
ProbeFailure(o) ==
    IF ObjectPayload(o) THEN "InvalidPayload"
    ELSE IF o.settle = "response" THEN "NullPayload"
    ELSE IF o.hasResponse THEN (IF o.status = 404 THEN "NotFound" ELSE "Unreachable")
    ELSE IF o.code = "ECONNREFUSED" THEN "ConnectionRefused"
    ELSE IF o.code = "ENOTFOUND" THEN "DnsFailure"
    ELSE IF o.code = "ECONNABORTED" THEN "Timeout"
    ELSE "Other"

\* the Error thrown for the payload differs from the Error of every failure of
\* another kind, for the same baseUrl
ErrorTellsKind(baseUrl, o, error) ==
    \A o2 \in ProbeOutcomes :
        LET r2 == discoverSocketAgent(baseUrl, o2)
        IN (~r2.ok /\ ProbeFailure(o2) # ProbeFailure(o)) => r2.error # error

\* C11: an object payload without name or without endpoints makes
\* discoverSocketAgent throw the invalid-descriptor Error, which differs from the
\* Error of a 404, of another status, of a refused connection, of a DNS failure
\* and of a timeout, and no descriptor is returned; a payload with a non-empty
\* name and an empty endpoints list is returned as the descriptor
C11_InvalidPayloadFails ==
    (Discovered /\ ObjectPayload(api.outcome)) =>
        LET p == Get(api.outcome.data) IN
        /\ (p.name = None \/ p.endpoints = None) =>
              /\ ~api.result.ok
              /\ api.result.descriptor = None
              /\ api.result.error = <<"Discovery failed:">> \o MsgInvalidDescriptor
              /\ ErrorTellsKind(api.baseUrl, api.outcome, api.result.error)
        /\ (~NoName(p.name) /\ p.endpoints = Some(<<>>)) =>
              /\ api.result.ok
              /\ Get(api.result.descriptor).name = p.name
              /\ Get(api.result.descriptor).endpoints = Some(<<>>)

C11_Witness ==
    /\ Discovered
    /\ ObjectPayload(api.outcome)
    /\ Get(api.outcome.data).name = None
    /\ Get(api.outcome.data).endpoints = Some(<<SearchProducts>>)
    /\ ~api.result.ok

\* C16: after a successful discoverSocketAgent the descriptor's baseUrl has no
\* trailing slash: it is the payload's baseUrl when present, otherwise the url
\* with one trailing slash stripped; the probe went to that url +
\* /.well-known/socket-agent
C16_BaseUrlNormalized ==
    (Discovered /\ api.result.ok) =>
        LET p == Get(api.outcome.data)
            d == Get(api.result.descriptor)
        IN /\ ~endsWith(Get(d.baseUrl), "/")
           /\ d.baseUrl = IF p.baseUrl # None THEN p.baseUrl
                          ELSE Some(StripTrailingSlash(api.baseUrl))
           /\ api.request.url = StripTrailingSlash(api.baseUrl)
                                    \o <<"/.well-known/socket-agent">>

\* C17: a response with status 404 gives the no-API-found Error and every other
\* failed status an HTTP Error that carries the status; a refused connection, a
\* DNS failure and a timeout each give an Error that differs from the Errors of
\* the other failures, the invalid-descriptor Error included
C17_DiscoveryFailureKinds ==
    (Discovered /\ api.outcome.settle = "error") =>
        LET o == api.outcome
            error == api.result.error
        IN /\ ~api.result.ok
           /\ o.hasResponse =>
                /\ (error[1] = "No Socket Agent API found at") <=> (o.status = 404)
                /\ o.status # 404 =>
                     error = <<"HTTP", ToString(o.status), ":", o.statusText>>
           /\ ProbeFailure(o) \in {"ConnectionRefused", "DnsFailure", "Timeout"} =>
                ErrorTellsKind(api.baseUrl, o, error)

C17_Witness ==
    /\ Discovered
    /\ api.outcome.settle = "error"
    /\ api.outcome.status = 503
    /\ api.result.error[2] = "503"

(***************************************************************************)
(* Properties of callAPI                                                   *)
(***************************************************************************)
\* callAPI has issued its request and waits for the answer
Issued == api.fn = "callAPI" /\ api.pc = "awaiting"
Called == api.fn = "callAPI" /\ api.pc = "done" /\ api.issued

EndpointsOf(descriptor) == Get(Get(descriptor).endpoints)

\* resolution by precedence: a match by operationId, only otherwise one by path,
\* only otherwise one by method:path
PrecedenceMatch(endpoints, endpointId) ==
    LET byId == {i \in DOMAIN endpoints : endpoints[i].operationId = Some(endpointId)}
        byPath == {i \in DOMAIN endpoints : endpoints[i].path = Some(endpointId)}
        byBoth == {i \in DOMAIN endpoints : Composite(endpoints[i]) = endpointId}
        first(S) == Some(endpoints[CHOOSE i \in S : \A j \in S : i <= j])
    IN  IF byId # {} THEN first(byId)
        ELSE IF byPath # {} THEN first(byPath)
        ELSE IF byBoth # {} THEN first(byBoth)
        ELSE None


\* C12: the endpoint callAPI resolves a reference to is the one matching by
\* operationId if there is one, only otherwise one matching by path, only
\* otherwise one matching by method:path, whatever the order of the endpoints
C12_ResolutionPrecedence ==
    (Issued /\ api.descriptor # None) =>
        api.resolved.endpoint = PrecedenceMatch(EndpointsOf(api.descriptor), api.endpointId)

\* the role the path template and the method give a key
RoleByTemplate(key, method, template) ==
    IF includes(template, Placeholder(key)) THEN "path"
    ELSE IF method \in {"GET", "DELETE"} THEN "query" ELSE "body"

Keys(entries) == {entries[i][1] : i \in DOMAIN entries}

\* C13: every key of params has exactly one role, path parameter iff the resolved
\* path template contains {key}, otherwise query parameter under GET or DELETE
\* and body field under any other method, whatever the order of the keys and the
\* values of the other parameters
C13_ParameterClassification ==
    Issued =>
        \A key \in Keys(api.params) :
            LET role == RoleByTemplate(key, api.resolved.method, api.resolved.path)
                c == api.classified
            IN /\ (key \in Keys(c.pathParams)) <=> (role = "path")
               /\ (key \in Keys(c.queryParams)) <=> (role = "query")
               /\ (key \in Keys(c.bodyParams)) <=> (role = "body")

\* C14: search_products with {query: milk} for the service at
\* http://localhost:8001, whose descriptor declares GET /products under that
\* operationId, issues GET http://localhost:8001/products?query=milk, through
\* ipcMain.handle('call-api') as well as when callAPI is given the descriptor
C14_SearchProductsRequest ==
    (/\ Issued
     /\ api.endpointId = <<"search_products">>
     /\ api.params = <<(<<"query", <<"milk">>>>)>>
     /\ \/ api.via = "ipc"
        \/ /\ api.descriptor # None
           /\ SearchProducts \in Range(EndpointsOf(api.descriptor)))
        => RequestLine(api.config)
             = <<"GET", " ", "http://localhost:8001", "/products", "?", "query", "=", "milk">>

NoMatch(descriptor, endpointId) ==
    \/ descriptor = None
    \/ \A i \in DOMAIN EndpointsOf(descriptor) :
          ~Matches(EndpointsOf(descriptor)[i], endpointId)

CallFailure(error) ==
    CASE error[1] = "Client error (" -> "ClientError"
      [] error[1] = "Server error (" -> "ServerError"
      [] error[1] \in {"Connection refused. Is the API server running?",
                       "Cannot resolve hostname"} -> "ConnectionFailed"
      [] error[1] = "Request timeout" -> "TimedOut"
      [] error[1] = "HTTP" -> "HttpError"
      [] OTHER -> "RequestFailed"

\* what the server supplied as message or error, if anything
Supplied(data) ==
    IF data = None THEN None
    ELSE IF ~NoName(Get(data).message) THEN Get(data).message
    ELSE IF ~NoName(Get(data).error) THEN Get(data).error
    ELSE None

\* a 2xx body is returned unchanged; 4xx fails as ClientError and 5xx as
\* ServerError, with the status and the server's message or error; a refused
\* connection or unknown host as ConnectionFailed, a timeout as TimedOut
MapsResult(o, r) ==
    /\ o.settle = "response" => (r.ok /\ r.data = o.data)
    /\ o.settle = "error" => ~r.ok
    /\ (o.settle = "error" /\ o.hasResponse /\ o.status >= 400) =>
          /\ CallFailure(r.error) = IF o.status < 500 THEN "ClientError" ELSE "ServerError"
          /\ r.error[2] = ToString(o.status)
          /\ Supplied(o.data) # None => r.error[4] = Get(Supplied(o.data))
    /\ (o.settle = "error" /\ ~o.hasResponse) =>
          /\ o.code \in {"ECONNREFUSED", "ENOTFOUND"} => CallFailure(r.error) = "ConnectionFailed"
          /\ o.code = "ECONNABORTED" => CallFailure(r.error) = "TimedOut"

FourKinds == {"ClientError", "ServerError", "ConnectionFailed", "TimedOut"}

InitE2E ==
    /\ state = setTokens(InitState, "at", "rt")
    /\ dom = InitDom
    /\ tasks = EmptyBag
    /\ steps = 0
    /\ hybrid \in {constructor(a, b, c) :
                     a \in BOOLEAN, b \in BOOLEAN,
                     c \in SUBSET {"socket-agent-mode", "html-mode"}}
    /\ renders = EmptyBag
    /\ api = ApiIdle
    /\ page = InitPage
    /\ wallet = InitWallet
    /\ last = HStep("init", NoRender, NoOutcome, NoDetection, FALSE)

\* the scenario has steps left
Within == steps < MaxE2ESteps

NextE2E ==
    \/ Within /\ \E url \in Urls : HandleGo(url)
    \/ Within /\ \E t \in Pending : DiscoverOk(t)
    \/ Within /\ \E t \in Pending : DiscoverFail(t)
    \/ Within /\ \E t \in Pending : GenerateOk(t)
    \/ Within /\ \E t \in Pending : GenerateFail(t)
    \/ Within /\ \E url \in Urls : Render(url)
    \/ Within /\ \E r \in Rendering : \E o \in DiscoveryOutcomes(r.url) : RenderDetected(r, o)
    \/ Within /\ \E r \in Rendering : RenderSocketAgentOk(r)
    \/ Within /\ \E r \in Rendering : RenderSocketAgentFail(r)
    \/ Within /\ \E r \in Rendering : RenderHTMLOk(r)
    \/ Within /\ \E r \in Rendering : RenderHTMLFail(r)

SpecE2E == InitE2E /\ [][NextE2E]_vars

showLoadingScreen(p) == [hideAllScreens(p) EXCEPT !.hidden.loading = FALSE]

showErrorScreen(p, message) ==
    [hideAllScreens(p) EXCEPT !.errorMessage = message, !.hidden.error = FALSE]

\* bindGeneratedUIEvents: one click listener more on every [data-api-call] element
\* and one submit listener more on every form that is in #generated-ui
bindGeneratedUIEvents(p) ==
    [p EXCEPT !.controls = [c \in ControlIds |->
                               IF @[c].present THEN [@[c] EXCEPT !.listeners = @ + 1]
                               ELSE @[c]],
              !.formListeners = @ + 1]

\* showGeneratedWebsite: innerHTML = html puts new elements, without listeners, in
\* #generated-ui; bindGeneratedUIEvents then binds them
showGeneratedWebsite(p, html) ==
    bindGeneratedUIEvents(
        [hideAllScreens(p) EXCEPT !.html = html, !.markup = @ + 1,
                                  !.controls = [c \in ControlIds |-> Control(TRUE)],
                                  !.formListeners = 0,
                                  !.hidden.generated = FALSE])

\* what electronAPI.callAPI settles with: a result object whose success is true,
\* false or absent, null, or a rejection
ApiResults ==
    {[settle |-> "resolve", isNull |-> FALSE, success |-> "true",
      data |-> <<"{\"products\":[\"milk\"]}">>, error |-> "undefined"],
     [settle |-> "resolve", isNull |-> FALSE, success |-> "false",
      data |-> <<>>, error |-> "Client error (404): Bad request"],
     [settle |-> "resolve", isNull |-> FALSE, success |-> "undefined",
      data |-> <<>>, error |-> "undefined"],
     [settle |-> "resolve", isNull |-> TRUE, success |-> "undefined",
      data |-> <<>>, error |-> "undefined"],
     [settle |-> "reject", isNull |-> FALSE, success |-> "undefined",
      data |-> <<>>, error |-> "Request timeout"]}

\* displayAPIResult: the result block of the control's parent, its error block
\* removed
displayAPIResult(control, result) ==
    [control EXCEPT !.results = <<"Success!">> \o result, !.error = <<>>]

\* no error block is written
displayAPIErrorNotShown(control, error) == control

\* displayAPIError: the error block of the control's parent, its result block
\* removed
displayAPIError(control, error) ==
    [control EXCEPT !.error = <<"Error", error>>, !.results = <<>>]

\* the part of handleAPICall after the await, on the button it was called for
handleAPICallSettled(control, originalText, o) ==
    LET shown == IF o.settle = "reject" THEN displayAPIError(control, o.error)
                 ELSE IF o.isNull
                 THEN displayAPIError(control, "Cannot read properties of null")
                 ELSE IF Truthy(o.success) THEN displayAPIResult(control, o.data)
                 ELSE displayAPIError(control, o.error)
    IN [shown EXCEPT !.text = originalText, !.disabled = FALSE]

PageTick == steps < MaxPageSteps /\ steps' = steps + 1
PageFrame == UNCHANGED <<state, dom, tasks, hybrid, renders, last, api, wallet>>

\* handleNavigation up to the await of discoverSocketAgent
HandleNavigation(url) ==
    /\ PageTick
    /\ page' = [showLoadingScreen(page) EXCEPT
                  !.currentUrl = url,
                  !.navigations = Add(@, [pc |-> "discover", url |-> url,
                                          descriptor |-> NullDescriptor])]
    /\ PageFrame

\* discovery answered success with a descriptor
NavigationDiscovered(n, d) ==
    /\ PageTick
    /\ n.pc = "discover"
    /\ d.baseUrl = n.url
    /\ page' = [page EXCEPT
                  !.currentDescriptor = d,
                  !.navigations = Move(@, n, [n EXCEPT !.pc = "generate",
                                                       !.descriptor = d])]
    /\ PageFrame

\* discovery or generation answered success=false, or rejected
NavigationFailed(n) ==
    /\ PageTick
    /\ page' = [showErrorScreen(page, IF n.pc = "discover" THEN "discovery failed"
                                      ELSE "Website generation failed")
                  EXCEPT !.navigations = Remove(@, n)]
    /\ PageFrame

\* generateWebsite answered success
NavigationGenerated(n) ==
    /\ PageTick
    /\ n.pc = "generate"
    /\ page' = [showGeneratedWebsite(page, Html(n.descriptor))
                  EXCEPT !.navigations = Remove(@, n)]
    /\ PageFrame

\* a click on an enabled data-api-call button of the generated UI on display:
\* handleAPICall up to the await of callAPI
HandleAPICall(c) ==
    /\ PageTick
    /\ ~page.hidden.generated
    /\ page.controls[c].present
    /\ page.controls[c].listeners > 0
    /\ ~page.controls[c].disabled
    /\ page' = [page EXCEPT
                  !.controls[c].text = "Loading...",
                  !.controls[c].disabled = TRUE,
                  !.calls = Add(@, [control |-> c, markup |-> page.markup,
                                    originalText |-> page.controls[c].text,
                                    url |-> page.currentUrl])]
    /\ PageFrame

\* callAPI settles: the result or the error is displayed and the button restored,
\* on the page when the button is still part of it
APICallSettled(h, o) ==
    /\ PageTick
    /\ page' = [page EXCEPT
                  !.controls[h.control] =
                      IF h.markup = page.markup
                      THEN handleAPICallSettled(@, h.originalText, o)
                      ELSE @,
                  !.calls = Remove(@, h)]
    /\ PageFrame

\* a form of the generated UI on display is submitted: its submit listener runs
\* e.preventDefault() and nothing else
FormSubmitted ==
    /\ PageTick
    /\ ~page.hidden.generated
    /\ page.formListeners > 0
    /\ page' = [page EXCEPT !.submits = @ + 1]
    /\ PageFrame

InitRenderer ==
    /\ state = InitState
    /\ dom = InitDom
    /\ tasks = EmptyBag
    /\ steps = 0
    /\ hybrid = InitHybrid
    /\ renders = EmptyBag
    /\ last = HStep("init", NoRender, NoOutcome, NoDetection, FALSE)
    /\ api = ApiIdle
    /\ page = InitPage
    /\ wallet = InitWallet

NextRenderer ==
    \/ \E url \in Urls : HandleNavigation(url)
    \/ \E n \in BagToSet(page.navigations) : \E d \in Descriptors : NavigationDiscovered(n, d)
    \/ \E n \in BagToSet(page.navigations) : NavigationFailed(n)
    \/ \E n \in BagToSet(page.navigations) : NavigationGenerated(n)
    \/ \E c \in ControlIds : HandleAPICall(c)
    \/ \E h \in BagToSet(page.calls) : \E o \in ApiResults : APICallSettled(h, o)
    \/ FormSubmitted

SpecRenderer == InitRenderer /\ [][NextRenderer]_vars

(***************************************************************************)
(* Properties of renderer.js                                               *)
(***************************************************************************)
\* what a navigation owns: current URL and descriptor, the screen on display, the
\* markup, and the navigations in progress
PageView(p) == <<p.currentUrl, p.currentDescriptor, p.hidden, p.errorMessage,
                 p.html, p.markup, p.navigations>>

\* the block a settled call leaves next to its button
InlineOutcome(control, o) ==
    IF o.settle = "resolve" /\ ~o.isNull /\ o.success = "true"
    THEN control.results = <<"Success!">> \o o.data /\ control.error = <<>>
    ELSE control.error # <<>> /\ control.results = <<>>

\* C20: a step of handleAPICall (the click up to the await, or the continuation
\* once callAPI has returned success, an error or thrown) changes neither the
\* history nor historyIndex, current URL, current descriptor or the screen on
\* display, and touches no other control; on a button still part of the page the
\* result block or the error block is put next to it and the button is restored
C20_APICallIsLocal ==
    [][page'.calls # page.calls =>
         /\ PageView(page') = PageView(page)
         /\ Stack(state') = Stack(state)
         /\ dom' = dom
         /\ \E c \in ControlIds :
               /\ \A other \in ControlIds \ {c} :
                     page'.controls[other] = page.controls[other]
               /\ \A h \in BagToSet(page.calls) :
                     (page'.calls = Remove(page.calls, h) /\ h.control = c
                      /\ h.markup = page.markup) =>
                        /\ \E o \in ApiResults : InlineOutcome(page'.controls[c], o)
                        /\ page'.controls[c].text = h.originalText
                        /\ ~page'.controls[c].disabled]_vars

C20_Witness ==
    /\ page.controls["search_products"].error = <<"Error", "Request timeout">>
    /\ page.controls["search_products"].text = "Run"
    /\ ~page.hidden.generated
    /\ page.calls = EmptyBag

(***************************************************************************)
(* Properties of the screens of the front end                              *)
(***************************************************************************)
\* the screen transitions of the state machine
ScreenMoves == {<<"BLANK", "LOADING">>, <<"LOADING", "ACTIVE">>, <<"LOADING", "ERROR">>,
                <<"ACTIVE", "LOADING">>, <<"ERROR", "LOADING">>}

\* the screens the step just taken went through: a step that enters generateUI
\* shows the loading screen before anything else
ScreenPath ==
    IF EntersGenerateUI
    THEN <<Screen(last.pre.dom), "LOADING", Screen(dom)>>
    ELSE <<Screen(last.pre.dom), Screen(dom)>>

\* the steps that are a navigation request: navigate, and a goBack()/goForward()
NavigationRequest == last.op \in {"go", "back", "forward"}

\* C21: the screen starts BLANK; every step changes the screen only along
\* BLANK->LOADING, LOADING->ACTIVE, LOADING->ERROR, ACTIVE->LOADING, ERROR->LOADING;
\* navigate leaves the screen LOADING; and a step that is not a navigation request
\* leaves an ACTIVE or ERROR screen as it is.
C21_ScreenStateMachine ==
    /\ last.op = "init" => Screen(dom) = "BLANK"
    /\ \A i \in 1..(Len(ScreenPath) - 1) :
          ScreenPath[i] # ScreenPath[i + 1]
              => <<ScreenPath[i], ScreenPath[i + 1]>> \in ScreenMoves
    /\ last.op = "go" => Screen(dom) = "LOADING"
    /\ (Screen(last.pre.dom) \in {"ACTIVE", "ERROR"} /\ ~NavigationRequest)
          => Screen(dom) = Screen(last.pre.dom)

(***************************************************************************)
(* HybridRenderer.render under fair scheduling: a promise that has         *)
(* settled has its continuation run by the event loop, so a render call    *)
(* suspended at an await goes on once the collaborator has answered.       *)
(***************************************************************************)
RenderContinues ==
    \/ \E r \in Rendering : \E o \in DiscoveryOutcomes(r.url) : RenderDetected(r, o)
    \/ \E r \in Rendering : RenderSocketAgentOk(r)
    \/ \E r \in Rendering : RenderSocketAgentFail(r)
    \/ \E r \in Rendering : RenderHTMLOk(r)
    \/ \E r \in Rendering : RenderHTMLFail(r)

SpecHybridFair == InitH /\ [][NextH]_vars /\ WF_vars(RenderContinues)

\* C22: every render call that is suspended at an await is over after finitely many
\* steps (as long as the run has steps left), and no step of a navigation lets the
\* failure of a collaborator out of the navigation operation: render() never rejects.
C22_EveryFailureIsATransition ==
    /\ [](~last.rejected)
    /\ (renders # EmptyBag) ~> (renders = EmptyBag \/ steps = MaxSteps)

\* C23: mode changes only at the step where the generation succeeded (to
\* socket-agent) or where the viewport load succeeded (to html); at every other
\* step, a failed generation or load included, mode keeps its value.
C23_ModeCommitsOnSuccess ==
    [][hybrid'.mode # hybrid.mode =>
          \/ last'.op = "generated" /\ hybrid'.mode = "socket-agent"
          \/ last'.op = "loaded" /\ hybrid'.mode = "html"]_vars

(***************************************************************************)
(* Properties of the generated UI: binding and form submission             *)
(***************************************************************************)
\* C24: whenever generated markup has just been installed in the front end (by a
\* navigation or by the replay of a history entry), each declared-action control and
\* each form of that markup has exactly one handler attached.
C24_BoundOncePerInstallation ==
    last.op = "generateOk" => dom.listeners = 1

\* a step that handles the submit event of a form of the generated UI
Submitted == page'.submits = page.submits + 1

\* C25: the step that handles the submission of a form of the generated UI starts a
\* call of the API with the form's action and fields (a call more is pending after
\* it).
C25_FormSubmitCallsRouter ==
    [][Submitted =>
          BagCardinality(page'.calls) = BagCardinality(page.calls) + 1]_vars

(***************************************************************************)
(* Properties of history replay                                            *)
(***************************************************************************)
\* the step just taken is a goBack() or goForward() that moved historyIndex
Moved ==
    \/ last.op = "back" /\ BackMoves(Pre)
    \/ last.op = "forward" /\ ForwardMoves(Pre)

\* C26: a goBack()/goForward() of a signed-in user that moves shows the markup of
\* the entry it moved to (the generated-UI screen with the markup generated for that
\* entry's descriptor) and calls the render service no further time.
C26_ReplayReinstallsSnapshot ==
    (Moved /\ Authorized(state))
        => /\ Generating(tasks) = Generating(last.pre.tasks)
           /\ Screen(dom) = "ACTIVE"
           /\ dom.html = Html(state.descriptor)

(***************************************************************************)
(* History replay: a signed-in user who has navigated to X and then to Y,  *)
(* both generated, and now only uses the Back and Forward buttons; the     *)
(* render service answers each generateWebsite call in its own time.       *)
(***************************************************************************)
Visited(url) == [name |-> "Grocery API", baseUrl |-> url]

\* main.js state and the screens after navigateTo("X") and navigateTo("Y") have
\* completed
StateAfterXY ==
    CommitDiscovery(CommitDiscovery(setTokens(InitState, "at", "rt"), "X", Visited("X")),
                    "Y", Visited("Y"))

DomAfterXY ==
    setGeneratedUI(showLoading(setGeneratedUI(showLoading(InitDom), Html(Visited("X")))),
                   Html(Visited("Y")))

InitReplay ==
    /\ state = StateAfterXY
    /\ dom = DomAfterXY
    /\ tasks = EmptyBag
    /\ steps = 0
    /\ hybrid = InitHybrid
    /\ renders = EmptyBag
    /\ api = ApiIdle
    /\ page = InitPage
    /\ wallet = InitWallet
    /\ last = [op |-> "init", task |-> NoTask,
               pre |-> [state |-> StateAfterXY, dom |-> DomAfterXY, tasks |-> EmptyBag],
               afterBack |-> NotAfterBack]

NextReplay ==
    \/ HandleBack
    \/ HandleForward
    \/ \E t \in Pending : GenerateOk(t)
    \/ \E t \in Pending : GenerateFail(t)

SpecReplay == InitReplay /\ [][NextReplay]_vars

\* C30: when no generation call is pending any more and the generated UI is on
\* display, the markup displayed is the one generated for the descriptor of
\* history[historyIndex], in whatever order the pending calls completed.
C30_ReplayShowsCurrentEntry ==
    (tasks = EmptyBag /\ Screen(dom) = "ACTIVE")
        => dom.html = Html(EntryAt(state.history, state.historyIndex).descriptor)

\* current URL and descriptor are those of the entry at historyIndex
Aligned(st) ==
    st.historyIndex >= 0 =>
        /\ st.currentUrl = EntryAt(st.history, st.historyIndex).url
        /\ st.descriptor = EntryAt(st.history, st.historyIndex).descriptor

Cleared(st) == st.currentUrl = Null /\ st.descriptor = NullDescriptor

Returned == api.fn = "callAPI" /\ api.pc = "done"

\* C27: every callAPI call that has returned or thrown has issued its request: the
\* one axios call was made, whether the call ended in a result or in a failure.
C27_ExactlyOneNetworkCall ==
    Returned => api.issued

\* the straightforward rule: the entries of params taken in order, a key being a path
\* parameter exactly when its placeholder appears in the path as substituted so far
RECURSIVE SubstituteFrom(_, _, _, _)
SubstituteFrom(params, method, i, acc) ==
    IF i > Len(params) THEN acc
    ELSE LET key == params[i][1]
             role == IF includes(acc.finalPath, Placeholder(key)) THEN "pathParams"
                     ELSE IF method \in {"GET", "DELETE"} THEN "queryParams"
                     ELSE "bodyParams"
             path == IF role = "pathParams"
                     THEN replace(acc.finalPath, Placeholder(key), params[i][2])
                     ELSE acc.finalPath
         IN SubstituteFrom(params, method, i + 1,
                           [acc EXCEPT ![role] = Append(@, params[i]),
                                       !.finalPath = path])

\* C28: for every call, the path, query and body parameters and the final path that
\* callAPI's test produces are those of the rule 'a key is a path parameter exactly
\* when its placeholder appears in the path', whatever the keys of params are.
C28_PathParamTestIsPlaceholderRule ==
    Issued =>
        api.classified =
            SubstituteFrom(api.params, api.resolved.method, 1,
                           [finalPath |-> api.resolved.path, pathParams |-> <<>>,
                            queryParams |-> <<>>, bodyParams |-> <<>>])

\* a call on /users/{id} whose params hold a key other than id before the key id:
\* the other key goes to the query, id into the path
C28_Witness ==
    /\ Issued
    /\ api.resolved.path = <<"/users/", "{id}">>
    /\ api.params = <<<<"filter", <<"milk">>>>, <<"id", <<"milk">>>>>>
    /\ api.classified.queryParams = <<<<"filter", <<"milk">>>>>>
    /\ api.classified.finalPath = <<"/users/", "milk">>

(***************************************************************************)
(* Properties of renderer.js: the base URL of the displayed interface      *)
(***************************************************************************)
\* C31: whenever the generated interface is displayed, currentUrl (the base URL
\* handleAPICall sends its calls to) is the URL whose discovery produced
\* currentDescriptor, and the markup displayed is the one generated for that
\* descriptor, also when handleNavigation calls overlap.
C31_CallsGoToDiscoveredBase ==
    ~page.hidden.generated =>
        /\ page.currentUrl = page.currentDescriptor.baseUrl
        /\ page.html = Html(page.currentDescriptor)

(***************************************************************************)
(* Properties of generateUI: the retry after a token refresh               *)
(***************************************************************************)
\* the generateWebsite calls one generateUI call has made so far: the first one and
\* one for every retry frame
Attempts(t) == t.depth + 1

\* C32: no generateUI call makes more than two generateWebsite calls, however often
\* the render service answers 'Authentication failed' and the refresh succeeds.
C32_AtMostTwoGenerationAttempts ==
    \A t \in Pending : t.pc = "generate" => Attempts(t) <= 2

(***************************************************************************)
(* Properties of the content screens                                       *)
(***************************************************************************)
\* the content screens of ui.js that are displayed
Displayed(d) == {screen \in {"welcome", "loading", "generated", "error"} : d[screen]}

\* C33: in every reachable state exactly one of the welcome, loading, generated-UI
\* and error screens is displayed.
C33_ExactlyOneScreen ==
    Cardinality(Displayed(dom)) = 1

(***************************************************************************)
(* Properties of the HybridRenderer: mode, surfaces and chrome             *)
(***************************************************************************)

ModeClasses == {"socket-agent-mode", "html-mode"}

ModeClass(mode) == IF mode = "socket-agent" THEN "socket-agent-mode" ELSE "html-mode"

RequiredFields == {"name", "endpoints"}

\* required.every(field => descriptor.hasOwnProperty(field))
validateDescriptor(descriptor) == \A field \in RequiredFields : descriptor[field] # None

\* C35: validateDescriptor returns true exactly for the object payloads that the
\* required-field check of discoverSocketAgent admits
C35_ValidatorsAgree ==
    (Discovered /\ ObjectPayload(api.outcome)) =>
        (validateDescriptor(Get(api.outcome.data)) <=> api.result.ok)

(***************************************************************************)
(* Properties of callAPI: the substitution of the path parameters          *)
(***************************************************************************)

\* C36: for every key of params whose placeholder occurs in the resolved path
\* template, once or several times, the URL of the request holds no occurrence
\* of that placeholder
C36_NoPlaceholderRemains ==
    Issued =>
        \A i \in DOMAIN api.params :
            includes(api.resolved.path, Placeholder(api.params[i][1]))
                => ~includes(api.config.url, Placeholder(api.params[i][1]))

(***************************************************************************)
(* SolanaWallet (wallet/solana-wallet.js)                                  *)
(*                                                                         *)
(* A keypair is named by its key; a recovery phrase and a base58 private   *)
(* key name the key they derive; the encrypted item is the key, the        *)
(* password it was encrypted under and the salt drawn for it.              *)
(***************************************************************************)
\* the password argument: a string, or undefined
Passwords == {"hunter2", "letmein", "undefined"}

ValidPhrases == {"phrase of A", "phrase of B"}
Phrases == ValidPhrases \cup {"not a phrase"}

PrivateKeys == {"secret of A", "secret of B", "not a key"}

MsgNotUnlocked == "Wallet not unlocked"
MsgPassword == "The \"password\" argument must be of type string"
MsgNullKeypair == "Cannot read properties of null (reading 'publicKey')"

\* bip39.validateMnemonic(mnemonic)
validateMnemonic(mnemonic) == mnemonic \in ValidPhrases

\* Keypair.fromSeed((await bip39.mnemonicToSeed(mnemonic)).slice(0, 32))
fromSeed(mnemonic) == IF mnemonic = "phrase of A" THEN "A" ELSE "B"

\* Keypair.fromSecretKey(bs58.decode(privateKeyBase58)): None when either throws
fromSecretKey(privateKeyBase58) ==
    CASE privateKeyBase58 = "secret of A" -> Some("A")
      [] privateKeyBase58 = "secret of B" -> Some("B")
      [] OTHER -> None

\* bs58.encode(keypair.secretKey)
encodeSecretKey(key) == IF key = "A" THEN "secret of A" ELSE "secret of B"

\* encrypt(data, password): pbkdf2Sync throws on a password that is no string
\* (None); the salt and iv are drawn anew for each call
encrypt(data, password, salt) ==
    IF password = "undefined" THEN None
    ELSE Some([key |-> data, password |-> password, salt |-> salt])

\* decrypt(encryptedData, password): the data, or None when pbkdf2Sync or the
\* authentication tag check of decipher.final() throws
decrypt(encryptedData, password) ==
    IF password = encryptedData.password THEN Some(encryptedData.key) ELSE None

\* the two setItem calls of saveWallet
saveWallet(w, key, encrypted) ==
    [w EXCEPT !.encrypted = Some(encrypted), !.address = Some(key)]

\* hasWallet()
hasWallet(w) == w.encrypted # None

\* this.keypair = keypair; this.isUnlocked = true
setKeypair(w, key) == [w EXCEPT !.keypair = Some(key), !.isUnlocked = TRUE]

\* lock() that clears the flag only
lockKeepsKeypair(w) == [w EXCEPT !.isUnlocked = FALSE]

\* lock()
lock(w) == [w EXCEPT !.keypair = None, !.isUnlocked = FALSE]

\* a failed unlock locks the wallet
unlockResumeLocksOnFailure(w, key) ==
    IF key = None
    THEN [wallet |-> lock(w), error |-> Some("Wrong password")]
    ELSE [wallet |-> setKeypair(w, Get(key)), error |-> None]

\* unlock after its await of decrypt: key is what decrypt and
\* Keypair.fromSecretKey gave, None when the try block threw
unlockResume(w, key) ==
    IF key = None
    THEN [wallet |-> w, error |-> Some("Wrong password")]
    ELSE [wallet |-> setKeypair(w, Get(key)), error |-> None]

\* getBalance(): its guard, then the RPC call (rpc = the Error it rejects with)
getBalance(w, rpc) == IF w.keypair = None THEN Some(MsgNotUnlocked) ELSE rpc

\* exportPrivateKey()
exportPrivateKey(w) ==
    IF w.keypair = None
    THEN [error |-> Some(MsgNotUnlocked), value |-> None]
    ELSE [error |-> None, value |-> Some(encodeSecretKey(Get(w.keypair)))]

\* autoPayForGeneration up to its await of getBalance: the Error thrown, if any
autoPayForGeneration(w) == IF w.keypair = None THEN Some(MsgNotUnlocked) ELSE None

\* what the other fields of the wallet hold besides the suspended methods
Core(w) == [keypair |-> w.keypair, isUnlocked |-> w.isUnlocked,
            encrypted |-> w.encrypted, address |-> w.address]

\* an async method of the wallet: pc = the await it is suspended at (called = it
\* has not awaited, failed = it has thrown), key = the keypair it derived, enc =
\* what encrypt returned
WalletTask(fn, pc, key, password, input) ==
    [fn |-> fn, pc |-> pc, key |-> key, password |-> password, enc |-> None,
     input |-> input]

NoWalletTask == WalletTask("none", "none", None, "undefined", "")

WalletPending == BagToSet(wallet.pending)

\* the wallet step just taken: the method, the task it started or continued, the
\* Error it threw, and the wallet before the step
WStep(t, error) == [op |-> t.fn, task |-> t, error |-> error, before |-> Core(wallet)]

\* history field sinceLock: None until lock() is called, then the methods that have
\* completed successfully since the latest lock()
Succeeded(w, fn) ==
    [w EXCEPT !.sinceLock = IF @ = None THEN None ELSE Some(Get(@) \cup {fn})]

WalletFrame == UNCHANGED <<state, dom, tasks, hybrid, renders, api, page>>
WalletTick == steps < MaxWalletSteps /\ steps' = steps + 1
CanCall == BagCardinality(wallet.pending) < MaxWalletCalls

\* a method throws before its first await, or is suspended at it
Throw(t, message) ==
    /\ wallet' = wallet
    /\ last' = WStep([t EXCEPT !.pc = "failed"], Some(message))

Suspend(t) ==
    /\ CanCall
    /\ wallet' = [wallet EXCEPT !.pending = Add(@, t)]
    /\ last' = WStep(t, None)

\* generateNew(password) up to its await of mnemonicToSeed; mnemonic is the phrase
\* generateMnemonic drew
GenerateNew(mnemonic, password) ==
    /\ WalletTick
    /\ Suspend(WalletTask("generateNew", "seed", Some(fromSeed(mnemonic)), password,
                          mnemonic))
    /\ WalletFrame

\* importFromMnemonic(mnemonic, password) up to its await of mnemonicToSeed
ImportFromMnemonic(mnemonic, password) ==
    /\ WalletTick
    /\ IF ~validateMnemonic(mnemonic)
       THEN Throw(WalletTask("importFromMnemonic", "called", None, password, mnemonic),
                  "Invalid recovery phrase")
       ELSE Suspend(WalletTask("importFromMnemonic", "seed", Some(fromSeed(mnemonic)),
                               password, mnemonic))
    /\ WalletFrame

\* the seed is there: the keypair is derived and saveWallet runs up to its await
\* of encrypt
SeedDerived(t) ==
    /\ WalletTick
    /\ t.pc = "seed"
    /\ LET u == [t EXCEPT !.pc = "encrypt", !.enc = encrypt(Get(t.key), t.password, steps)]
       IN /\ wallet' = [wallet EXCEPT !.pending = Move(@, t, u)]
          /\ last' = WStep(u, None)
    /\ WalletFrame

\* importFromPrivateKey(privateKeyBase58, password) up to the await of encrypt
\* inside saveWallet
ImportFromPrivateKey(privateKeyBase58, password) ==
    /\ WalletTick
    /\ LET keypair == fromSecretKey(privateKeyBase58)
           t == WalletTask("importFromPrivateKey", "called", keypair, password,
                           privateKeyBase58)
       IN IF keypair = None
          THEN Throw(t, "Invalid private key")
          ELSE Suspend([t EXCEPT !.pc = "encrypt",
                                 !.enc = encrypt(Get(keypair), password, steps)])
    /\ WalletFrame

\* encrypt has settled: saveWallet stores the two items and returns, or the Error
\* of encrypt goes up to the caller
Encrypted(t) ==
    /\ WalletTick
    /\ t.pc = "encrypt"
    /\ IF t.enc = None
       THEN /\ wallet' = [wallet EXCEPT !.pending = Remove(@, t)]
            /\ last' = WStep([t EXCEPT !.pc = "failed"],
                             Some(IF t.fn = "importFromPrivateKey"
                                  THEN "Invalid private key" ELSE MsgPassword))
       ELSE LET u == [t EXCEPT !.pc = "saveWallet"]
            IN /\ wallet' = [saveWallet(wallet, Get(t.key), Get(t.enc))
                               EXCEPT !.pending = Move(@, t, u)]
               /\ last' = WStep(u, None)
    /\ WalletFrame

\* saveWallet has returned: the keypair is installed
Saved(t) ==
    /\ WalletTick
    /\ t.pc = "saveWallet"
    /\ wallet' = Succeeded([setKeypair(wallet, Get(t.key))
                              EXCEPT !.pending = Remove(@, t)], t.fn)
    /\ last' = WStep([t EXCEPT !.pc = "returned"], None)
    /\ WalletFrame

\* unlock(password) up to its await of decrypt, which has run on the item read
Unlock(password) ==
    /\ WalletTick
    /\ IF ~hasWallet(wallet)
       THEN Throw(WalletTask("unlock", "called", None, password, ""), "No wallet found")
       ELSE Suspend(WalletTask("unlock", "decrypt",
                               decrypt(Get(wallet.encrypted), password), password, ""))
    /\ WalletFrame

\* decrypt has settled
Unlocked(t) ==
    /\ WalletTick
    /\ t.pc = "decrypt"
    /\ LET r == unlockResume([wallet EXCEPT !.pending = Remove(@, t)], t.key)
       IN /\ wallet' = IF r.error = None THEN Succeeded(r.wallet, t.fn) ELSE r.wallet
          /\ last' = WStep([t EXCEPT !.pc = IF r.error = None THEN "returned" ELSE "failed"],
                           r.error)
    /\ WalletFrame

Lock ==
    /\ WalletTick
    /\ wallet' = [lock(wallet) EXCEPT !.sinceLock = Some({})]
    /\ last' = WStep(WalletTask("lock", "returned", None, "undefined", ""), None)
    /\ WalletFrame

\* getBalance(), the RPC call resolving or rejecting
GetBalance(rpc) ==
    /\ WalletTick
    /\ wallet' = wallet
    /\ LET error == getBalance(wallet, rpc)
       IN last' = WStep(WalletTask("getBalance", IF error = None THEN "returned" ELSE "failed",
                                   wallet.keypair, "undefined", ""), error)
    /\ WalletFrame

ExportPrivateKey ==
    /\ WalletTick
    /\ wallet' = wallet
    /\ LET r == exportPrivateKey(wallet)
       IN last' = WStep(WalletTask("exportPrivateKey",
                                   IF r.error = None THEN "returned" ELSE "failed",
                                   wallet.keypair, "undefined", ""), r.error)
    /\ WalletFrame

\* autoPayForGeneration(recipientAddress) up to the await of its getBalance
AutoPayForGeneration ==
    /\ WalletTick
    /\ LET error == autoPayForGeneration(wallet)
           t == WalletTask("autoPayForGeneration", "called", wallet.keypair, "undefined", "")
       IN IF error # None THEN Throw(t, Get(error))
          ELSE Suspend([t EXCEPT !.pc = "getBalance"])
    /\ WalletFrame

\* the balance is there (or the RPC call failed): too low, or the transfer is
\* built from this.keypair as it is now and sent
BalanceRead(t, balance) ==
    /\ WalletTick
    /\ t.pc = "getBalance"
    /\ wallet' = [wallet EXCEPT !.pending = Remove(@, t)]
    /\ LET error == CASE balance = "rejected" -> Some("rpc error")
                      [] balance = "low" -> Some("Insufficient balance")
                      [] wallet.keypair = None -> Some(MsgNullKeypair)
                      [] OTHER -> None
       IN last' = WStep([t EXCEPT !.pc = IF error = None THEN "returned" ELSE "failed"],
                        error)
    /\ WalletFrame

InitSolanaWallet ==
    /\ state = InitState
    /\ dom = InitDom
    /\ tasks = EmptyBag
    /\ steps = 0
    /\ hybrid = InitHybrid
    /\ renders = EmptyBag
    /\ api = ApiIdle
    /\ page = InitPage
    /\ wallet = InitWallet
    /\ last = [op |-> "init", task |-> NoWalletTask, error |-> None,
               before |-> Core(InitWallet)]

NextWallet ==
    \/ \E mnemonic \in ValidPhrases, password \in Passwords :
          GenerateNew(mnemonic, password)
    \/ \E mnemonic \in Phrases, password \in Passwords :
          ImportFromMnemonic(mnemonic, password)
    \/ \E privateKeyBase58 \in PrivateKeys, password \in Passwords :
          ImportFromPrivateKey(privateKeyBase58, password)
    \/ \E password \in Passwords : Unlock(password)
    \/ \E t \in WalletPending : SeedDerived(t)
    \/ \E t \in WalletPending : Encrypted(t)
    \/ \E t \in WalletPending : Saved(t)
    \/ \E t \in WalletPending : Unlocked(t)
    \/ Lock
    \/ \E rpc \in {None, Some("rpc error")} : GetBalance(rpc)
    \/ ExportPrivateKey
    \/ AutoPayForGeneration
    \/ \E t \in WalletPending, balance \in {"enough", "low", "rejected"} :
          BalanceRead(t, balance)

SpecWallet == InitSolanaWallet /\ [][NextWallet]_vars

(***************************************************************************)
(* Properties of the wallet                                                *)
(***************************************************************************)

\* getBalance, exportPrivateKey and autoPayForGeneration, called now, each fail
\* with 'Wallet not unlocked'
NotUnlocked(w) ==
    /\ \A rpc \in {None, Some("rpc error")} : getBalance(w, rpc) = Some(MsgNotUnlocked)
    /\ exportPrivateKey(w).error = Some(MsgNotUnlocked)
    /\ autoPayForGeneration(w) = Some(MsgNotUnlocked)

\* lock() has been called and none of the methods fns has succeeded since
LockedSince(w, fns) == w.sinceLock # None /\ Get(w.sinceLock) \cap fns = {}

\* C37: in every reachable state isUnlocked is true exactly when keypair is
\* non-null, and after lock() the three methods that need the key fail with
\* 'Wallet not unlocked' until an unlock or an import succeeds
C37_LockStateConsistent ==
    /\ wallet.isUnlocked <=> wallet.keypair # None
    /\ LockedSince(wallet, {"unlock", "importFromMnemonic", "importFromPrivateKey"})
          => NotUnlocked(wallet)

\* C37 as amended: in every reachable state isUnlocked is true exactly when
\* keypair is non-null, and after lock() the three methods that need the key fail
\* with 'Wallet not unlocked' until an unlock, an import or a generateNew succeeds
C37_LockedUntilUnlockImportOrGenerate ==
    /\ wallet.isUnlocked <=> wallet.keypair # None
    /\ LockedSince(wallet, {"unlock", "importFromMnemonic", "importFromPrivateKey",
                            "generateNew"})
          => NotUnlocked(wallet)

\* an unlocked wallet was locked, and the getBalance() after it has failed
C37_Witness ==
    /\ LockedSince(wallet, {"unlock", "importFromMnemonic", "importFromPrivateKey",
                            "generateNew"})
    /\ hasWallet(wallet)
    /\ ~wallet.isUnlocked
    /\ last.op = "getBalance"
    /\ last.error = Some(MsgNotUnlocked)

\* the call just continued is one the claim names: an unlock whose password does
\* not decrypt the stored wallet or that finds none, an importFromMnemonic of an
\* invalid phrase, an importFromPrivateKey of an invalid key
FailingCall(l) ==
    \/ l.op = "unlock" /\ l.task.key = None
    \/ l.op = "importFromMnemonic" /\ ~validateMnemonic(l.task.input)
    \/ l.op = "importFromPrivateKey" /\ fromSecretKey(l.task.input) = None

\* the Error such a call raises
FailureOf(l) ==
    CASE l.op = "unlock" ->
           IF l.before.encrypted = None
           THEN Some("No wallet found") ELSE Some("Wrong password")
      [] l.op = "importFromMnemonic" -> Some("Invalid recovery phrase")
      [] OTHER -> Some("Invalid private key")

\* C38: no step of an unlock with a wrong password or without a stored wallet, of
\* an importFromMnemonic of an invalid phrase or of an importFromPrivateKey of an
\* invalid key changes keypair, isUnlocked or the stored wallet, and the call ends
\* in its Error
C38_FailedOperationChangesNothing ==
    FailingCall(last) =>
        /\ Core(wallet) = last.before
        /\ last.task.pc \in {"decrypt", "failed"}
        /\ last.task.pc = "failed" => last.error = FailureOf(last)

\* an unlocked wallet after an unlock with a wrong password
C38_Witness ==
    /\ FailingCall(last)
    /\ last.op = "unlock"
    /\ last.error = Some("Wrong password")
    /\ wallet.isUnlocked
    /\ wallet.keypair # None
    /\ hasWallet(wallet)

====
